---- MODULE Spec2Model ----
(***************************************************************************)
(* Control and recovery substrate of the Brazilian legal pipeline:         *)
(*   LoopController  (brazilian_legal_pipeline/loop_controller.py)         *)
(*   SessionManager  (brazilian_legal_pipeline/session_manager.py)         *)
(*   BrazilianLegalPipeline  (brazilian_legal_pipeline/agent.py)           *)
(*   GitStateBackend  (brazilian_legal_pipeline/git_state.py)              *)
(*                                                                         *)
(* Specifications                                                          *)
(*   Spec     one LoopController driven through its whole API: a loop task *)
(*            that calls iterate()/wait_if_paused() (and may suspend on    *)
(*            the asyncio.Event) and callers of the synchronous methods.   *)
(*   SpecCtl  one run: start() once, then iterate() calls by the loop task *)
(*            while the control side issues pause()/resume()/stop().       *)
(*   SpecFine pause()/resume()/stop() and the body of iterate() executed   *)
(*            statement by statement on the main thread, pre-empted by the *)
(*            signal handlers installed by _setup_signals.                 *)
(*   SpecReg  the SessionManager registry with concurrent run_pipeline     *)
(*            tasks.                                                       *)
(*   SpecTot  the controller for any checkpoint_interval (0 included) and  *)
(*            any outcome of the checkpoint write, with process crashes.   *)
(*   SpecCkpt the checkpoint store while the clock advances: writes, file  *)
(*            names, load_checkpoint and load_latest_checkpoint.           *)
(*   SpecDebate one _run_debate call of BrazilianLegalPipeline (agent.py)  *)
(*            with any answers of its two agents.                          *)
(*   SpecPipe one run() call of the pipeline with its controller, the      *)
(*            operator pausing, resuming and stopping it.                  *)
(*   SpecSess the registry with every way a run_pipeline call can end.     *)
(*   SpecGit  one workspace and its GitStateBackend (git_state.py) with    *)
(*            git absent or failing.                                       *)
(*   SpecLife the session descriptor through create_session, run_pipeline  *)
(*            and resume_session, with git absent or failing.              *)
(*   SpecRoute the registry under control requests: its proxies, the       *)
(*            module-level functions and the process signals.              *)
(***************************************************************************)
EXTENDS Integers, Sequences, FiniteSets, TLC

\* ------------------------------------------------------------------ bounds
\* max_iterations given to the constructor (the pipeline passes 5).
MaxIterations == 2
\* Model cap on current_iteration: iterate() itself has no upper limit.
IterCap == 3
\* Last instant of the model clock (datetime.now() readings are 0..MaxClock).
MaxClock == 1

\* Number of SessionInfo objects created (create_session and resume_session).
MaxObjects == 3
\* Largest config.max_debate_iterations explored (the default is 3).
MaxDebate == 2
\* Model cap on the commits made by commit() in one repository.
MaxCommits == 2

\* ------------------------------------------------------------------ values
\* LoopState (enum values)
IDLE == "idle"
RUNNING == "running"
PAUSED == "paused"
STOPPED == "stopped"
COMPLETED == "completed"
ERROR == "error"
LoopState == {IDLE, RUNNING, PAUSED, STOPPED, COMPLETED, ERROR}

\* Optional[str] error_message: None or a message
NoneMsg == "None"
Msgs == {"boom"}

\* current_phase: "init" after construction, then the set_phase arguments
InitPhase == "init"
PhaseArgs == {"intake"}

\* state_data: a dict over AllKeys; Absent marks a key that is not in the dict.
\* Keys are the keys a caller of update_state sets; PipelineKeys those that
\* BrazilianLegalPipeline.run sets, always to the value "completed"
Keys == {"x"}
PipelineKeys == {"intake_analysis", "verification", "construction", "drafting"}
AllKeys == Keys \cup PipelineKeys
Absent == "absent"
Vals == {"v1"}
PhaseDone == "completed"
\* the dict over AllKeys that holds the entries of f
DictOf(f) == [k \in AllKeys |-> IF k \in DOMAIN f THEN f[k] ELSE Absent]
Dicts == {DictOf(f) : f \in [Keys -> Vals \cup {Absent}]}
EmptyDict == [k \in AllKeys |-> Absent]

\* values that json.dump does not write back as they are: a tuple is written
\* as an array, which json.load reads as a list
TupleVal == "(1, 2)"
ListVal == "[1, 2]"
AnyVals == Vals \cup {TupleVal}
AnyDicts == {DictOf(f) : f \in [Keys -> AnyVals \cup {Absent}]}
\* JSON texts of the values
JsonString == "json \"v1\""
JsonDone == "json \"completed\""
JsonArray == "json [1, 2]"
\* content of a checkpoint file whose json.dump did not finish
Partial == [iteration |-> 0 - 1, phase |-> "", state_data |-> EmptyDict,
            timestamp |-> 0 - 1]

\* checkpoint_interval values given to the constructor
CheckpointIntervals == {1, 2}
\* the same with 0, which the constructor accepts as well
AnyIntervals == {0} \cup CheckpointIntervals

\* what a write into checkpoint_dir does: it succeeds; mkdir()/open() raise;
\* json.dump raises after open() has created or truncated the file
DiskStates == {"ok", "unwritable", "full"}

\* no exception
NoExc == "none"

\* microseconds in a second (datetime resolution)
MicrosPerSecond == 1000000

\* value returned by iterate() when the stop flag is set
Sentinel == 0 - 1
\* `ret` of an operation that returns nothing; a returned number n is <<n>>
NoRet == <<>>

\* run_pipeline calls (asyncio tasks), session ids, workspace directories
Tasks == {"t1", "t2"}
SessionIds == {1, 2}
Paths == {"w1", "w2"}
\* case_id arguments of create_session
CaseIds == {"c1", "c2"}
\* what the git commands run with check=True do during one call: they exit
\* with 0, or with another status (subprocess raises CalledProcessError)
GitOutcomes == {"ok", "fails"}
\* files of a workspace: a document, and a file that GITIGNORE_CONTENT
\* excludes ("*.tmp"); what a file holds (Absent: there is no such file)
WorkFiles == {"doc", "tmp"}
Ignored == {"tmp"}
Contents == {"v1", "v2"}
TagNames == {"tag1"}
\* case_path arguments that _validate_case_path refuses, and what each is:
\*   "file"    the path exists and is not a directory
\*   "dir_ro"  the path is a directory without write permission
\*   "orphan"  the path does not exist, nor does its parent
\*   "new_ro"  the path does not exist, its parent has no write permission
PathKind ==
    [w1 |-> "dir", w2 |-> "new", f |-> "file", d |-> "dir_ro", o |-> "orphan",
     n |-> "new_ro"]
BadPaths == DOMAIN PathKind \ Paths
AllPaths == DOMAIN PathKind
\* no controller: _global_controller is None, no handler is registered
NoTask == "none"
\* the control methods and the ways a request reaches a controller
Methods == {"pause", "resume", "stop"}
Routes == {"signal", "global"}
\* ---- texts: str values as sequences of code points
\* constructive_output[:2000]: the characters of an output kept in agent_outputs
StoredChars == 2000
\* "d1", "d2": outputs of a constructive agent
TxtDraft1 == <<100, 49>>
TxtDraft2 == <<100, 50>>
\* an output of StoredChars + 1 characters
TxtLong == [i \in 1..(StoredChars + 1) |-> 120]
\* "no", "aprovado", "ok: Aprovado.", "approved": outputs of an adversarial agent
TxtNo == <<110, 111>>
TxtLower == <<97, 112, 114, 111, 118, 97, 100, 111>>
TxtMixed == <<111, 107, 58, 32, 65, 112, 114, 111, 118, 97, 100, 111, 46>>
TxtEnglish == <<97, 112, 112, 114, 111, 118, 101, 100>>
ConstructiveTexts == {TxtDraft1, TxtDraft2, TxtLong}
AdversarialTexts == {TxtNo, TxtLower, TxtMixed, TxtEnglish}
\* approval_indicators = ["APROVADO", "approved", "aprovado"]
ApprovalIndicators ==
    {<<65, 80, 82, 79, 86, 65, 68, 79>>,
     <<97, 112, 112, 114, 111, 118, 101, 100>>,
     <<97, 112, 114, 111, 118, 97, 100, 111>>}
\* the debate phases of run(): phase -> [constructive_name, adversarial_name]
DebateAgents ==
    [verification |-> <<"verificador", "cetico">>,
     construction |-> <<"construtor", "destruidor">>,
     drafting |-> <<"redator", "critico">>]
DebatePhases == DOMAIN DebateAgents
\* what an agent invocation can raise: an ordinary Exception, the builtin
\* InterruptedError (an OSError), asyncio.CancelledError (a BaseException)
ActorExcs == {"RuntimeError", "InterruptedError", "CancelledError"}
\* LoopController(max_iterations=5, ...) built by BrazilianLegalPipeline.run
PipelineMaxIterations == 5
\* Optional[str] git_commit: None
NoCommit == 0

VARIABLES
    \* ---- LoopController fields
    state,               \* _state
    current_iteration,   \* _current_iteration
    current_phase,       \* _current_phase
    state_data,          \* _state_data
    last_checkpoint,     \* _last_checkpoint: <<>> (None) or <<checkpoint>>
    aliased,             \* _state_data is the very dict held by _last_checkpoint
    error_message,       \* _error_message
    pause_event,         \* _pause_event value: TRUE = set (gate open)
    stop_requested,      \* _stop_requested
    checkpoint_interval, \* constructor argument
    max_iterations,      \* constructor argument
    \* ---- environment of the controller
    files,               \* checkpoint_dir: timestamp -> checkpoint written
    clock,               \* datetime.now()
    emitted,             \* status events printed by the latest operation
    disk,                \* what a write into checkpoint_dir does: see DiskStates
    \* ---- the loop task
    pc,                  \* "idle" | "iterate_waiting" | "iterate_woken"
                         \*        | "wait_waiting" | "wait_woken"
    \* ---- history
    last,                \* latest operation: [op, ret, raised], and phase_arg,
                         \* the argument of the latest set_phase call
    \* ---- statement-level execution (SpecFine)
    mpc,                 \* main thread: [op, step] of the method in progress
    \* ---- SessionManager (SpecReg)
    active_sessions,     \* _active_sessions: session id -> SessionInfo object
    session_objs,        \* the SessionInfo objects made so far, in order
    pipelines,           \* _pipelines: session id -> task whose pipeline is stored
    run,                 \* run_pipeline calls: task -> [pc, sid, outcome]
    session_file,        \* .adk_session.json of each workspace: <<>> or <<descriptor>>
    git_available,       \* GitStateBackend._git_available on this host
    commits,             \* number of commits in the repository of each workspace
    loops,               \* the LoopController of each run_pipeline call:
                         \* [state, pause_event, stop_requested]
    global_controller,   \* _global_controller: the task whose controller it is
    signal_target,       \* the task whose controller the handlers of SIGUSR1,
                         \* SIGUSR2 and SIGTERM are bound to
    \* ---- GitStateBackend (SpecGit)
    repo,                \* one workspace seen through its backend: the work
                         \* tree, .git, the commits and the tags
    \* ---- BrazilianLegalPipeline
    debate,              \* the _run_debate call in progress: its locals, its
                         \* DebateResult and the prompts it has executed
    max_debate_iterations, \* config.max_debate_iterations
    pipe                 \* the run() call: its position, its PipelineResult, _state

ctlVars == <<state, current_iteration, current_phase, state_data, last_checkpoint,
             aliased, error_message, pause_event, stop_requested,
             checkpoint_interval, max_iterations>>
envVars == <<files, clock, emitted, disk>>
histVars == <<last>>
routeVars == <<loops, global_controller, signal_target>>
regVars == <<active_sessions, session_objs, pipelines, run, session_file,
             git_available, commits, routeVars, repo>>
pipeVars == <<debate, max_debate_iterations, pipe>>
vars == <<ctlVars, envVars, pc, histVars, mpc, regVars, pipeVars>>

\* ------------------------------------------------------------ LoopController

\* Checkpoint(iteration, phase, state_data, timestamp=datetime.now().isoformat())
Checkpoint(it, ph, sd, ts) ==
    [iteration |-> it, phase |-> ph, state_data |-> sd, timestamp |-> ts]

\* get_status().progress_percent (whole percent)
ProgressPercent(it) ==
    LET progress == IF max_iterations > 0 THEN (it * 100) \div max_iterations ELSE 0
    IN  IF progress < 100 THEN progress ELSE 100

\* get_status(): the LoopStatus built from the given field values
GetStatus(st, it, ph, lc, em) ==
    [state |-> st, current_iteration |-> it, max_iterations |-> max_iterations,
     current_phase |-> ph, progress_percent |-> ProgressPercent(it),
     last_checkpoint |-> lc, error_message |-> em]

\* _emit_status(): one loop_status line on stdout
EmitStatus(st, it, ph, lc, em) == <<GetStatus(st, it, ph, lc, em)>>

\* json.dump of a state_data value / json.load of the text
JsonEncode(v) ==
    CASE v = "v1" -> JsonString
      [] v = PhaseDone -> JsonDone
      [] v \in {TupleVal, ListVal} -> JsonArray
      [] OTHER -> Absent
JsonDecode(x) ==
    CASE x = JsonString -> "v1"
      [] x = JsonDone -> PhaseDone
      [] x = JsonArray -> ListVal
      [] OTHER -> Absent

\* json.dump(checkpoint.to_dict(), f): the text of a checkpoint file
JsonDump(cp) ==
    [iteration |-> cp.iteration, phase |-> cp.phase,
     state_data |-> [k \in AllKeys |-> JsonEncode(cp.state_data[k])],
     timestamp |-> cp.timestamp]

\* Checkpoint.from_dict(json.load(f))
JsonLoad(text) ==
    Checkpoint(text.iteration, text.phase,
               [k \in AllKeys |-> JsonDecode(text.state_data[k])], text.timestamp)

\* open(checkpoint_file, "w") followed by the write of `content`: the file is
\* named by the timestamp and an existing file of that name is truncated
WriteFile(fs, ts, content) ==
    [t \in DOMAIN fs \cup {ts} |-> IF t = ts THEN content ELSE fs[t]]

\* _save_checkpoint() that records the initial phase instead of the current one
SaveCheckpointInitPhase(it, ph) ==
    LET cp == Checkpoint(it, InitPhase, state_data, clock)
    IN  /\ last_checkpoint' = <<cp>>
        /\ aliased' = FALSE
        /\ files' = WriteFile(files, clock, JsonDump(cp))

\* exception raised by the file part of _save_checkpoint()
SaveExc == IF disk = "ok" THEN NoExc ELSE "OSError"

\* _save_checkpoint(): snapshot of (iteration, phase, copy of state_data);
\* _last_checkpoint is assigned before the file is written
SaveCheckpoint(it, ph) ==
    LET cp == Checkpoint(it, ph, state_data, clock)
    IN  /\ last_checkpoint' = <<cp>>
        /\ aliased' = FALSE
        /\ files' = CASE disk = "ok" -> WriteFile(files, clock, JsonDump(cp))
                      [] disk = "full" -> WriteFile(files, clock, Partial)
                      [] OTHER -> files

NoSave == UNCHANGED <<last_checkpoint, aliased, files>>

\* asyncio.Event.set(): opens the gate and completes the future of a waiter
EventSet(p) ==
    IF pause_event THEN p
    ELSE CASE p = "iterate_waiting" -> "iterate_woken"
           [] p = "wait_waiting" -> "wait_woken"
           [] OTHER -> p

\* the operation just executed: what it returned or the exception it raised
Outcome(op, ret, exc) ==
    last' = [op |-> op, ret |-> IF exc = NoExc THEN ret ELSE NoRet,
             raised |-> exc, phase_arg |-> last.phase_arg]

Did(op, ret) == Outcome(op, ret, NoExc)

\* pause() without its state test
PauseUnguarded ==
    /\ Outcome("pause", NoRet, SaveExc)
    /\ state' = PAUSED
    /\ pause_event' = FALSE
    /\ emitted' = EmitStatus(PAUSED, current_iteration, current_phase,
                             last_checkpoint, error_message)
    /\ SaveCheckpoint(current_iteration, current_phase)
    /\ UNCHANGED <<current_iteration, current_phase, state_data, error_message,
                   stop_requested, checkpoint_interval, max_iterations, clock, disk, pc>>

\* pause()
Pause ==
    /\ IF state = RUNNING
       THEN /\ state' = PAUSED
            /\ pause_event' = FALSE
            /\ emitted' = EmitStatus(PAUSED, current_iteration, current_phase,
                                     last_checkpoint, error_message)
            /\ SaveCheckpoint(current_iteration, current_phase)
            /\ Outcome("pause", NoRet, SaveExc)
       ELSE /\ emitted' = <<>>
            /\ NoSave
            /\ Did("pause", NoRet)
            /\ UNCHANGED <<state, pause_event>>
    /\ UNCHANGED <<current_iteration, current_phase, state_data, error_message,
                   stop_requested, checkpoint_interval, max_iterations, clock, disk, pc>>

\* resume() that forgets to set the event
ResumeGateLeftClosed ==
    /\ Did("resume", NoRet)
    /\ IF state = PAUSED
       THEN /\ state' = RUNNING
            /\ emitted' = EmitStatus(RUNNING, current_iteration, current_phase,
                                     last_checkpoint, error_message)
       ELSE /\ emitted' = <<>>
            /\ UNCHANGED state
    /\ NoSave
    /\ UNCHANGED <<current_iteration, current_phase, state_data, error_message,
                   pause_event, pc, stop_requested, checkpoint_interval, max_iterations, clock, disk>>

\* resume() without its state test
ResumeUnguarded ==
    /\ Did("resume", NoRet)
    /\ state' = RUNNING
    /\ pause_event' = TRUE
    /\ pc' = EventSet(pc)
    /\ emitted' = EmitStatus(RUNNING, current_iteration, current_phase,
                             last_checkpoint, error_message)
    /\ NoSave
    /\ UNCHANGED <<current_iteration, current_phase, state_data, error_message,
                   stop_requested, checkpoint_interval, max_iterations, clock, disk>>

\* resume()
Resume ==
    /\ Did("resume", NoRet)
    /\ IF state = PAUSED
       THEN /\ state' = RUNNING
            /\ pause_event' = TRUE
            /\ pc' = EventSet(pc)
            /\ emitted' = EmitStatus(RUNNING, current_iteration, current_phase,
                                     last_checkpoint, error_message)
       ELSE /\ emitted' = <<>>
            /\ UNCHANGED <<state, pause_event, pc>>
    /\ NoSave
    /\ UNCHANGED <<current_iteration, current_phase, state_data, error_message,
                   stop_requested, checkpoint_interval, max_iterations, clock, disk>>

\* stop() that sets the flag but does not set the event
StopWithoutSet ==
    /\ Outcome("stop", NoRet, SaveExc)
    /\ stop_requested' = TRUE
    /\ SaveCheckpoint(current_iteration, current_phase)
    /\ emitted' = <<>>
    /\ UNCHANGED <<state, current_iteration, current_phase, state_data,
                   error_message, pause_event, pc, checkpoint_interval, max_iterations, clock, disk>>

\* stop()
Stop ==
    /\ Outcome("stop", NoRet, SaveExc)
    /\ stop_requested' = TRUE
    /\ pause_event' = TRUE
    /\ pc' = EventSet(pc)
    /\ SaveCheckpoint(current_iteration, current_phase)
    /\ emitted' = <<>>
    /\ UNCHANGED <<state, current_iteration, current_phase, state_data,
                   error_message, checkpoint_interval, max_iterations, clock, disk>>

\* update_state(data): dict.update on _state_data (and on whatever shares it)
DictUpdate(sd, d) == [k \in AllKeys |-> IF d[k] # Absent THEN d[k] ELSE sd[k]]

UpdateState(d) ==
    /\ Did("update_state", NoRet)
    /\ state_data' = DictUpdate(state_data, d)
    /\ last_checkpoint' =
          IF aliased
          THEN <<[last_checkpoint[1] EXCEPT !.state_data = DictUpdate(state_data, d)]>>
          ELSE last_checkpoint
    /\ emitted' = <<>>
    /\ UNCHANGED <<state, current_iteration, current_phase, aliased, error_message,
                   pause_event, stop_requested, checkpoint_interval, max_iterations, files, clock, disk,
                   pc>>

\* set_phase(phase)
SetPhase(ph) ==
    /\ last' = [op |-> "set_phase", ret |-> NoRet, raised |-> NoExc,
                phase_arg |-> ph]
    /\ current_phase' = ph
    /\ emitted' = EmitStatus(state, current_iteration, ph, last_checkpoint,
                             error_message)
    /\ NoSave
    /\ UNCHANGED <<state, current_iteration, state_data, error_message,
                   pause_event, stop_requested, checkpoint_interval, max_iterations, clock, disk,
                   pc>>

\* should_stop()
ShouldStop == stop_requested

\* should_continue()
ShouldContinue == ~stop_requested /\ current_iteration < max_iterations

\* an iterate() that saves a checkpoint at every iteration
IterateTailEveryTime ==
    LET it == current_iteration + 1
    IN  /\ SaveCheckpoint(it, current_phase)
        /\ Outcome("iterate", <<it>>, SaveExc)
        /\ emitted' = IF SaveExc = NoExc
                      THEN EmitStatus(state, it, current_phase,
                                      last_checkpoint', error_message)
                      ELSE <<>>

\* iterate() after the increment: the periodic checkpoint (the `%` raises
\* when checkpoint_interval is 0), then _emit_status() and the return
IterateTail ==
    LET it == current_iteration + 1
    IN  CASE checkpoint_interval = 0 ->
               /\ Outcome("iterate", NoRet, "ZeroDivisionError")
               /\ emitted' = <<>>
               /\ NoSave
          [] checkpoint_interval # 0 /\ it % checkpoint_interval = 0 ->
               /\ SaveCheckpoint(it, current_phase)
               /\ Outcome("iterate", <<it>>, SaveExc)
               /\ emitted' = IF SaveExc = NoExc
                             THEN EmitStatus(state, it, current_phase,
                                             last_checkpoint', error_message)
                             ELSE <<>>
          [] OTHER ->
               /\ NoSave
               /\ Did("iterate", <<it>>)
               /\ emitted' = EmitStatus(state, it, current_phase,
                                        last_checkpoint, error_message)

\* iterate() that increments before it looks at the stop flag
IterateBodyIncrementFirst ==
    /\ current_iteration' = current_iteration + 1
    /\ IF ShouldStop
       THEN /\ state' = STOPPED
            /\ Did("iterate", <<Sentinel>>)
            /\ emitted' = <<>>
            /\ NoSave
       ELSE /\ IterateTail
            /\ UNCHANGED state

\* iterate() after `await self.wait_if_paused()` has returned
IterateBody ==
    IF ShouldStop
    THEN /\ state' = STOPPED
         /\ Did("iterate", <<Sentinel>>)
         /\ emitted' = <<>>
         /\ NoSave
         /\ UNCHANGED current_iteration
    ELSE /\ current_iteration' = current_iteration + 1
         /\ IterateTail
         /\ UNCHANGED state

\* iterate() that does not wait on the event
IterateWithoutWait ==
    /\ pc = "idle"
    /\ current_iteration < IterCap
    /\ IterateBody
    /\ pc' = "idle"
    /\ UNCHANGED <<current_phase, state_data, error_message, pause_event,
                   stop_requested, checkpoint_interval, max_iterations, clock, disk>>

\* iterate() called by the loop task: runs through when the gate is open,
\* suspends in wait_if_paused() when it is closed
IterateStep ==
    /\ pc = "idle"
    /\ IF pause_event
       THEN /\ IterateBody
            /\ pc' = "idle"
       ELSE /\ Did("iterate_blocked", NoRet)
            /\ pc' = "iterate_waiting"
            /\ emitted' = <<>>
            /\ NoSave
            /\ UNCHANGED <<state, current_iteration>>
    /\ UNCHANGED <<current_phase, state_data, error_message, pause_event,
                   stop_requested, checkpoint_interval, max_iterations, clock, disk>>

\* the same for the iterations explored when nothing else bounds them
Iterate == current_iteration < IterCap /\ IterateStep

\* the suspended iterate() is scheduled again after Event.set()
IterateWakeStep ==
    /\ pc = "iterate_woken"
    /\ IterateBody
    /\ pc' = "idle"
    /\ UNCHANGED <<current_phase, state_data, error_message, pause_event,
                   stop_requested, checkpoint_interval, max_iterations, clock, disk>>

\* the same for the iterations explored when nothing else bounds them
IterateWake == current_iteration < IterCap /\ IterateWakeStep

\* wait_if_paused() called by the loop task
WaitIfPaused ==
    /\ pc = "idle"
    /\ IF pause_event
       THEN /\ Did("wait_if_paused", NoRet)
            /\ pc' = "idle"
       ELSE /\ Did("wait_blocked", NoRet)
            /\ pc' = "wait_waiting"
    /\ emitted' = <<>>
    /\ UNCHANGED <<ctlVars, files, clock, disk>>

WaitWake ==
    /\ pc = "wait_woken"
    /\ Did("wait_if_paused", NoRet)
    /\ pc' = "idle"
    /\ emitted' = <<>>
    /\ UNCHANGED <<ctlVars, files, clock, disk>>

\* start() that leaves the stop flag as it is
StartKeepsStopFlag ==
    /\ Did("start", NoRet)
    /\ state' = RUNNING
    /\ current_iteration' = 0
    /\ emitted' = EmitStatus(RUNNING, 0, current_phase, last_checkpoint,
                             error_message)
    /\ NoSave
    /\ UNCHANGED <<current_phase, state_data, error_message, pause_event,
                   stop_requested, checkpoint_interval, max_iterations, clock, disk, pc>>

\* start()
Start ==
    /\ Did("start", NoRet)
    /\ state' = RUNNING
    /\ stop_requested' = FALSE
    /\ current_iteration' = 0
    /\ emitted' = EmitStatus(RUNNING, 0, current_phase, last_checkpoint,
                             error_message)
    /\ NoSave
    /\ UNCHANGED <<current_phase, state_data, error_message, pause_event,
                   checkpoint_interval, max_iterations, clock, disk, pc>>

\* complete(success)
Complete(success) ==
    /\ Outcome("complete", NoRet, SaveExc)
    /\ state' = IF success THEN COMPLETED ELSE ERROR
    /\ SaveCheckpoint(current_iteration, current_phase)
    /\ emitted' = IF SaveExc = NoExc
                  THEN EmitStatus(state', current_iteration, current_phase,
                                  last_checkpoint', error_message)
                  ELSE <<>>
    /\ UNCHANGED <<current_iteration, current_phase, state_data, error_message,
                   pause_event, stop_requested, checkpoint_interval, max_iterations, clock, disk, pc>>

\* set_error(message)
SetError(m) ==
    /\ Did("set_error", NoRet)
    /\ error_message' = m
    /\ state' = ERROR
    /\ emitted' = EmitStatus(ERROR, current_iteration, current_phase,
                             last_checkpoint, m)
    /\ NoSave
    /\ UNCHANGED <<current_iteration, current_phase, state_data, pause_event,
                   stop_requested, checkpoint_interval, max_iterations, clock, disk, pc>>

\* the body of load_checkpoint(checkpoint_file) for the file named by
\* timestamp t, called as `op`: None when the file does not exist,
\* JSONDecodeError from json.load when its text is not complete
LoadFile(op, t) ==
    CASE t \notin DOMAIN files ->
           /\ Did(op, NoRet)
           /\ UNCHANGED <<current_iteration, current_phase, state_data,
                          last_checkpoint, aliased>>
      [] t \in DOMAIN files /\ files[t] = Partial ->
           /\ Outcome(op, NoRet, "JSONDecodeError")
           /\ UNCHANGED <<current_iteration, current_phase, state_data,
                          last_checkpoint, aliased>>
      [] OTHER ->
           LET checkpoint == JsonLoad(files[t])
           IN  /\ current_iteration' = checkpoint.iteration
               /\ current_phase' = checkpoint.phase
               /\ state_data' = checkpoint.state_data
               /\ last_checkpoint' = <<checkpoint>>
               /\ aliased' = TRUE
               /\ Did(op, <<checkpoint>>)

\* load_checkpoint(checkpoint_file)
LoadCheckpoint(t) ==
    /\ LoadFile("load_checkpoint", t)
    /\ emitted' = <<>>
    /\ UNCHANGED <<state, error_message, pause_event, stop_requested,
                   checkpoint_interval, max_iterations, files, clock, disk, pc>>

\* datetime.now().isoformat(): the clock counts microseconds; the date, hour
\* and minute are the same for all readings and left out; the fraction is
\* printed only when the microsecond is not 0.  Characters are code points.
Digits(n, w) == [i \in 1..w |-> 48 + ((n \div (10 ^ (w - i))) % 10)]
IsoFormat(t) ==
    LET sec == t \div MicrosPerSecond
        us == t % MicrosPerSecond
    IN  Digits(sec, 2) \o (IF us = 0 THEN <<>> ELSE <<46>> \o Digits(us, 6))

\* f"checkpoint_{timestamp.replace(':', '-')}.json" after the common prefix
CheckpointFileName(t) == IsoFormat(t) \o <<46, 106, 115, 111, 110>>

\* str < str: the order sorted() puts the paths of one directory in
StrLess(a, b) ==
    \E i \in 1..(Len(a) + 1) :
        /\ \A j \in 1..(i - 1) : j <= Len(b) /\ a[j] = b[j]
        /\ i <= Len(b)
        /\ (i <= Len(a) => a[i] < b[i])

\* sorted(checkpoint_dir.glob("checkpoint_*.json"), reverse=True)[0]
LatestFile ==
    CHOOSE t \in DOMAIN files :
        \A u \in DOMAIN files \ {t} :
            StrLess(CheckpointFileName(u), CheckpointFileName(t))

\* load_latest_checkpoint()
LoadLatestCheckpoint ==
    /\ IF DOMAIN files = {}
       THEN /\ Did("load_latest_checkpoint", NoRet)
            /\ UNCHANGED <<current_iteration, current_phase, state_data,
                           last_checkpoint, aliased>>
       ELSE LoadFile("load_latest_checkpoint", LatestFile)
    /\ emitted' = <<>>
    /\ UNCHANGED <<state, error_message, pause_event, stop_requested,
                   checkpoint_interval, max_iterations, files, clock, disk, pc>>

\* the process is killed inside _save_checkpoint(), after open(file, "w") and
\* before json.dump has written the whole text; a new process then builds
\* its LoopController on the same checkpoint_dir
CrashInSave ==
    /\ disk = "ok"
    /\ files' = WriteFile(files, clock, Partial)
    /\ state' = IDLE
    /\ current_iteration' = 0
    /\ current_phase' = InitPhase
    /\ state_data' = EmptyDict
    /\ last_checkpoint' = <<>>
    /\ aliased' = FALSE
    /\ error_message' = NoneMsg
    /\ pause_event' = TRUE
    /\ stop_requested' = FALSE
    /\ pc' = "idle"
    /\ emitted' = <<>>
    /\ last' = [op |-> "crash_in_save", ret |-> NoRet, raised |-> NoExc,
                phase_arg |-> InitPhase]
    /\ UNCHANGED <<checkpoint_interval, max_iterations, clock, disk>>

\* datetime.now() advances
Tick ==
    /\ clock < MaxClock
    /\ clock' = clock + 1
    /\ Did("tick", NoRet)
    /\ emitted' = <<>>
    /\ UNCHANGED <<ctlVars, files, disk, pc>>

\* ---------------------------------------------- BrazilianLegalPipeline: debate
\* str.upper() on ASCII text
Upper(s) == [i \in DOMAIN s |-> IF s[i] \in 97..122 THEN s[i] - 32 ELSE s[i]]

\* `sub in s` for str
Contains(sub, s) ==
    \E i \in 1..(Len(s) - Len(sub) + 1) : SubSeq(s, i, i + Len(sub) - 1) = sub

\* the approval test without str.upper()
ApprovesCaseSensitive(out) == \E ind \in ApprovalIndicators : Contains(ind, out)

\* any(indicator in adversarial_output.upper() for indicator in approval_indicators)
Approves(out) == \E ind \in ApprovalIndicators : Contains(ind, Upper(out))

\* s[:2000]
Truncate(s) == IF Len(s) <= StoredChars THEN s ELSE SubSeq(s, 1, StoredChars)

\* DebateResult(phase, iterations=0, converged=False, final_output="",
\*              agent_outputs=[], exit_reason="")
DebateResult(phase) ==
    [phase |-> phase, iterations |-> 0, converged |-> FALSE, final_output |-> <<>>,
     agent_outputs |-> <<>>, exit_reason |-> ""]

\* no _run_debate call in progress
NoDebate ==
    [pc |-> "idle", iteration |-> 0, constructive_output |-> <<>>,
     adversarial_output |-> <<>>, result |-> DebateResult(""), calls |-> <<>>,
     raised |-> NoExc]

\* a _run_debate whose final_output is the last adversarial output
DebateReturnAdversarial(d) ==
    LET r == d.result
        reason == IF ~r.converged THEN "max_iterations" ELSE r.exit_reason
    IN  [d EXCEPT !.pc = "returned",
                  !.result = [r EXCEPT !.exit_reason = reason,
                                       !.final_output = d.adversarial_output]]

\* the tail of _run_debate, after the loop: exit_reason if not converged,
\* final_output, return
DebateReturn(d) ==
    LET r == d.result
        reason == IF ~r.converged THEN "max_iterations" ELSE r.exit_reason
    IN  [d EXCEPT !.pc = "returned",
                  !.result = [r EXCEPT !.exit_reason = reason,
                                       !.final_output = d.constructive_output]]

\* _run_debate up to the first agent invocation
DebateBegin(phase) ==
    /\ debate.pc = "idle"
    /\ LET d == [NoDebate EXCEPT !.result = DebateResult(phase)]
       IN  debate' = IF max_debate_iterations >= 1
                     THEN [d EXCEPT !.pc = "constructive", !.iteration = 1]
                     ELSE DebateReturn(d)
    /\ Did("debate_begin", NoRet)
    /\ UNCHANGED max_debate_iterations

\* a constructive prompt that never carries the feedback
ConstructivePromptNoFeedback(d) ==
    [agent |-> DebateAgents[d.result.phase][1], iteration |-> d.iteration,
     feedback |-> <<>>, draft |-> <<>>]

\* the prompt given to the constructive agent in round d.iteration: the
\* feedback section is there from round 2 on
ConstructivePrompt(d) ==
    [agent |-> DebateAgents[d.result.phase][1], iteration |-> d.iteration,
     feedback |-> IF d.iteration = 1 THEN <<>> ELSE <<d.adversarial_output>>,
     draft |-> <<>>]

\* the prompt given to the adversarial agent in round d.iteration
AdversarialPrompt(d) ==
    [agent |-> DebateAgents[d.result.phase][2], iteration |-> d.iteration,
     feedback |-> <<>>, draft |-> <<d.constructive_output>>]

\* agent_outputs.append({"agent": ..., "iteration": ..., "output": out[:2000]})
Recorded(r, agent, iteration, out) ==
    [r EXCEPT !.agent_outputs =
        Append(@, [agent |-> agent, iteration |-> iteration, output |-> Truncate(out)])]

\* _execute_prompt(prompt) that returned `answer` (<<text>>), or raised (<<>>)
Call(prompt, answer) == [prompt |-> prompt, answer |-> answer]

\* the constructive agent of the round answers `out`
DebateConstructive(out) ==
    /\ debate.pc = "constructive"
    /\ debate' = [debate EXCEPT
                     !.calls = Append(@, Call(ConstructivePrompt(debate), <<out>>)),
                     !.constructive_output = out,
                     !.result = Recorded(@, DebateAgents[debate.result.phase][1],
                                         debate.iteration, out),
                     !.pc = "adversarial"]
    /\ Did("debate_constructive", NoRet)
    /\ UNCHANGED max_debate_iterations

\* the adversarial agent of the round answers `out`: the rest of the round,
\* and of the call when the loop ends here
DebateAdversarial(out) ==
    /\ debate.pc = "adversarial"
    /\ LET r1 == Recorded(debate.result, DebateAgents[debate.result.phase][2],
                          debate.iteration, out)
           r2 == [r1 EXCEPT !.iterations = debate.iteration]
           d == [debate EXCEPT !.calls = Append(@, Call(AdversarialPrompt(debate), <<out>>)),
                               !.adversarial_output = out]
       IN  debate' =
             IF Approves(out)
             THEN DebateReturn([d EXCEPT !.result =
                                  [r2 EXCEPT !.converged = TRUE,
                                             !.exit_reason = "approved"]])
             ELSE IF debate.iteration < max_debate_iterations
                  THEN [d EXCEPT !.result = r2, !.pc = "constructive",
                                 !.iteration = debate.iteration + 1]
                  ELSE DebateReturn([d EXCEPT !.result = r2])
    /\ Did("debate_adversarial", NoRet)
    /\ UNCHANGED max_debate_iterations

\* the agent invocation of the round raises: nothing in _run_debate catches
\* it, the call ends with the exception
DebateRaise(exc) ==
    /\ debate.pc \in {"constructive", "adversarial"}
    /\ debate' = [debate EXCEPT
                     !.calls = Append(@, Call(IF debate.pc = "constructive"
                                              THEN ConstructivePrompt(debate)
                                              ELSE AdversarialPrompt(debate), <<>>)),
                     !.pc = "raised", !.raised = exc]
    /\ Outcome("debate_raised", NoRet, exc)
    /\ UNCHANGED max_debate_iterations

\* ------------------------------------------------- BrazilianLegalPipeline: run
\* the phases of run(), in order, and the state_data key set after each
PhaseNames == <<"intake", "verification", "construction", "drafting", "synthesis">>
PhaseKey == <<"intake_analysis", "verification", "construction", "drafting">>
\* the PipelineResult field and the _state key that receive a debate
ResultField == <<"", "verification_result", "construction_result", "drafting_result">>
OutputKey == <<"intake_analysis", "verified_sources", "legal_thesis", "draft_document">>

\* PipelineResult(...) built by run(); metadata["success"] is not set yet
PipelineResult ==
    [intake_analysis |-> <<>>, verification_result |-> <<>>,
     construction_result |-> <<>>, drafting_result |-> <<>>,
     final_output |-> <<>>, success |-> "unset", interrupted |-> FALSE,
     errors |-> <<>>]

\* no run() call made yet
NoRun ==
    [pc |-> "idle", phase |-> 0, result |-> PipelineResult,
     state |-> [k \in {OutputKey[i] : i \in 1..4} |-> <<>>], exc |-> NoExc]

\* f"{type(e).__name__}: {e}" and f"Interrompido: {e}"
ErrorMsg(exc) == IF exc = "RuntimeError" THEN "RuntimeError: boom" ELSE exc
InterruptedMsg == "Interrompido: Pipeline interrompido pelo usuario"

\* `except InterruptedError` of run(), then `return result`
Interrupted(p, msg) ==
    [p EXCEPT !.pc = "returned",
              !.result = [@ EXCEPT !.errors = Append(@, msg),
                                   !.success = "false", !.interrupted = TRUE]]

\* what run() leaves alone besides the controller
RunFrame == UNCHANGED <<mpc, regVars, max_debate_iterations>>
CtlFrame == UNCHANGED <<ctlVars, files, clock, disk, pc>>

\* run() up to `try`: the controller is built and started
RunStart ==
    /\ pipe.pc = "idle"
    /\ Start
    /\ pipe' = [NoRun EXCEPT !.pc = "set_phase", !.phase = 1]
    /\ UNCHANGED debate /\ RunFrame

\* self._loop_controller.set_phase(<phase>)
RunSetPhase ==
    /\ pipe.pc = "set_phase"
    /\ SetPhase(PhaseNames[pipe.phase])
    /\ pipe' = [pipe EXCEPT !.pc = "wait"]
    /\ UNCHANGED debate /\ RunFrame

\* await self._loop_controller.wait_if_paused()
RunWait ==
    /\ pipe.pc = "wait"
    /\ WaitIfPaused
    /\ pipe' = [pipe EXCEPT !.pc = IF pause_event THEN "check" ELSE "waiting"]
    /\ UNCHANGED debate /\ RunFrame

RunWaitWake ==
    /\ pipe.pc = "waiting"
    /\ WaitWake
    /\ pipe' = [pipe EXCEPT !.pc = "check"]
    /\ UNCHANGED debate /\ RunFrame

\* if self._loop_controller.should_stop(): raise InterruptedError(...)
RunCheck ==
    /\ pipe.pc = "check"
    /\ Did("should_stop", <<ShouldStop>>)
    /\ pipe' = IF ShouldStop THEN Interrupted(pipe, InterruptedMsg)
               ELSE [pipe EXCEPT !.pc = "work"]
    /\ emitted' = <<>>
    /\ UNCHANGED debate /\ CtlFrame /\ RunFrame

\* result.intake_analysis = await self._run_intake(consultation): the agent
\* answers; self._state["intake_analysis"] = ...
RunIntake(answer) ==
    /\ pipe.pc = "work" /\ pipe.phase = 1
    /\ Did("run_intake", NoRet)
    /\ pipe' = [pipe EXCEPT !.pc = "update",
                            !.result.intake_analysis = <<answer>>,
                            !.state.intake_analysis = <<answer>>]
    /\ emitted' = <<>>
    /\ UNCHANGED debate /\ CtlFrame /\ RunFrame

\* the agent invocation of _run_intake or _run_synthesis raises
RunAgentRaise(exc) ==
    /\ pipe.pc = "work" /\ pipe.phase \in {1, 5}
    /\ Outcome("agent_raised", NoRet, exc)
    /\ pipe' = [pipe EXCEPT !.pc = "raised", !.exc = exc]
    /\ emitted' = <<>>
    /\ UNCHANGED debate /\ CtlFrame /\ RunFrame

\* result.<phase>_result = await self._run_debate(...): the call
RunDebateBegin ==
    /\ pipe.pc = "work" /\ pipe.phase \in 2..4
    /\ DebateBegin(PhaseNames[pipe.phase])
    /\ pipe' = [pipe EXCEPT !.pc = "debate"]
    /\ emitted' = <<>>
    /\ CtlFrame /\ UNCHANGED <<mpc, regVars>>

\* _run_debate has returned: the result and its final_output are stored
RunDebateDone ==
    /\ pipe.pc = "debate" /\ debate.pc = "returned"
    /\ Did("run_debate", NoRet)
    /\ pipe' = [pipe EXCEPT !.pc = "update",
                            !.result[ResultField[pipe.phase]] = <<debate.result>>,
                            !.state[OutputKey[pipe.phase]] =
                                <<debate.result.final_output>>]
    /\ debate' = NoDebate
    /\ emitted' = <<>>
    /\ CtlFrame /\ RunFrame

\* _run_debate has ended with the exception its agent raised
RunDebateRaised ==
    /\ pipe.pc = "debate" /\ debate.pc = "raised"
    /\ Outcome("run_debate", NoRet, debate.raised)
    /\ pipe' = [pipe EXCEPT !.pc = "raised", !.exc = debate.raised]
    /\ emitted' = <<>>
    /\ UNCHANGED debate /\ CtlFrame /\ RunFrame

\* an exception raised inside `try` meets the except clauses of run():
\* `except InterruptedError`, `except Exception` (set_error), or neither
\* for a BaseException, which leaves run()
RunCatch ==
    /\ pipe.pc = "raised"
    /\ CASE pipe.exc = "InterruptedError" ->
              /\ pipe' = Interrupted(pipe, "Interrompido: ")
              /\ Did("run_except_interrupted", NoRet)
              /\ emitted' = <<>>
              /\ CtlFrame
         [] pipe.exc = "CancelledError" ->
              /\ pipe' = [pipe EXCEPT !.pc = "propagated"]
              /\ Outcome("run", NoRet, pipe.exc)
              /\ emitted' = <<>>
              /\ CtlFrame
         [] OTHER ->
              /\ SetError(ErrorMsg(pipe.exc))
              /\ pipe' = [pipe EXCEPT
                             !.pc = "returned",
                             !.result = [@ EXCEPT
                                           !.errors = Append(@, ErrorMsg(pipe.exc)),
                                           !.success = "false"]]
    /\ UNCHANGED debate /\ RunFrame

\* self._loop_controller.update_state({"<key>": "completed"})
RunUpdate ==
    /\ pipe.pc = "update"
    /\ UpdateState(DictOf(PhaseKey[pipe.phase] :> PhaseDone))
    /\ pipe' = [pipe EXCEPT !.pc = "iterate"]
    /\ UNCHANGED debate /\ RunFrame

\* await self._loop_controller.iterate(); its return value is not looked at
RunIterate ==
    /\ pipe.pc = "iterate"
    /\ IterateStep
    /\ pipe' = IF pause_event
               THEN [pipe EXCEPT !.pc = "set_phase", !.phase = @ + 1]
               ELSE [pipe EXCEPT !.pc = "iterating"]
    /\ UNCHANGED debate /\ RunFrame

RunIterateWake ==
    /\ pipe.pc = "iterating"
    /\ IterateWakeStep
    /\ pipe' = [pipe EXCEPT !.pc = "set_phase", !.phase = @ + 1]
    /\ UNCHANGED debate /\ RunFrame

\* result.final_output = await self._run_synthesis()
RunSynthesis(answer) ==
    /\ pipe.pc = "work" /\ pipe.phase = 5
    /\ Did("run_synthesis", NoRet)
    /\ pipe' = [pipe EXCEPT !.pc = "complete", !.result.final_output = <<answer>>]
    /\ emitted' = <<>>
    /\ UNCHANGED debate /\ CtlFrame /\ RunFrame

\* self._loop_controller.complete(success=True); metadata["success"] = True
RunComplete ==
    /\ pipe.pc = "complete"
    /\ Complete(TRUE)
    /\ pipe' = [pipe EXCEPT !.pc = "returned", !.result.success = "true"]
    /\ UNCHANGED debate /\ RunFrame

\* the debate actions leave the controller and the registry alone
DebateOnly == UNCHANGED <<ctlVars, envVars, pc, mpc, regVars, pipe>>

\* LoopController.__init__
InitController ==
    /\ state = IDLE
    /\ current_iteration = 0
    /\ current_phase = InitPhase
    /\ state_data = EmptyDict
    /\ last_checkpoint = <<>>
    /\ aliased = FALSE
    /\ error_message = NoneMsg
    /\ pause_event = TRUE
    /\ stop_requested = FALSE
    /\ checkpoint_interval \in AnyIntervals
    /\ max_iterations \in {MaxIterations, PipelineMaxIterations}
    /\ files = <<>>
    /\ clock = 0
    /\ emitted = <<>>
    /\ disk \in DiskStates
    /\ pc = "idle"
    /\ last = [op |-> "init", ret |-> NoRet, raised |-> NoExc,
               phase_arg |-> InitPhase]

\* a workspace for which no GitStateBackend has been built: no .git, no file
NoRepo ==
    [backend |-> FALSE, git_dir |-> FALSE, history |-> <<>>, tags |-> <<>>,
     tree |-> [f \in WorkFiles |-> Absent]]

\* a run_pipeline call not made yet.  outcome: how pipeline.run ended;
\* summary: <<PipelineResultSummary>> returned; raised: exception that reached
\* the caller of run_pipeline
NoCall ==
    [pc |-> "idle", sid |-> 0, obj |-> 0, outcome |-> "none", summary |-> <<>>,
     raised |-> NoExc]
\* the controller of a call whose pipeline has not built it
NoLoop == [state |-> IDLE, pause_event |-> TRUE, stop_requested |-> FALSE]

\* SessionManager.__init__, no run_pipeline call made yet
InitManager ==
    /\ active_sessions = <<>>
    /\ session_objs = <<>>
    /\ pipelines = <<>>
    /\ run = [t \in Tasks |-> NoCall]
    /\ session_file = [p \in AllPaths |-> <<>>]
    /\ git_available \in BOOLEAN
    /\ commits = [p \in AllPaths |-> 0]
    /\ loops = [t \in Tasks |-> NoLoop]
    /\ global_controller = NoTask
    /\ signal_target = NoTask

\* no debate in progress; config.max_debate_iterations of the pipeline
InitDebate ==
    /\ debate = NoDebate
    /\ max_debate_iterations \in 1..MaxDebate

InitRest ==
    /\ mpc = [op |-> "none", step |-> 0]
    /\ InitManager
    /\ repo = NoRepo
    /\ debate = NoDebate
    /\ max_debate_iterations = 1
    /\ pipe = NoRun

\* a controller on its own (Spec, SpecCtl, SpecFine) with a positive
\* checkpoint_interval and a checkpoint directory that can be written
Init ==
    /\ InitController /\ InitRest /\ git_available
    /\ checkpoint_interval \in CheckpointIntervals
    /\ max_iterations = MaxIterations
    /\ disk = "ok"

\* the registry; the pipeline builds its controller with checkpoint_interval=1
InitReg ==
    /\ InitController /\ InitRest
    /\ checkpoint_interval = 1
    /\ max_iterations = PipelineMaxIterations
    /\ disk = "ok"

\* ------------------------------------------------------------------- Spec
\* The controller alone: no statement-level execution, no registry
CtlOnly == UNCHANGED <<mpc, regVars, pipeVars>>

Next ==
    \/ Start /\ CtlOnly
    \/ Pause /\ CtlOnly
    \/ Resume /\ CtlOnly
    \/ Stop /\ CtlOnly
    \/ \E ph \in PhaseArgs : SetPhase(ph) /\ CtlOnly
    \/ Iterate /\ CtlOnly
    \/ IterateWake /\ CtlOnly
    \/ WaitIfPaused /\ CtlOnly
    \/ WaitWake /\ CtlOnly
    \/ \E b \in BOOLEAN : Complete(b) /\ CtlOnly
    \/ \E m \in Msgs : SetError(m) /\ CtlOnly
    \/ \E d \in Dicts : UpdateState(d) /\ CtlOnly
    \/ \E t \in 0..MaxClock : LoadCheckpoint(t) /\ CtlOnly

Spec == Init /\ [][Next]_vars

\* ---------------------------------------------------------------- SpecTot
\* The operations of the controller for every configuration and every
\* outcome of the file write: checkpoint_interval may be 0, the checkpoint
\* directory may refuse every write (unwritable, or full), and the process
\* may die inside a save.
InitTot ==
    /\ InitController /\ InitRest /\ git_available
    /\ max_iterations = MaxIterations

NextTot ==
    \/ Start /\ CtlOnly
    \/ Pause /\ CtlOnly
    \/ Resume /\ CtlOnly
    \/ Stop /\ CtlOnly
    \/ \E ph \in PhaseArgs : SetPhase(ph) /\ CtlOnly
    \/ Iterate /\ CtlOnly
    \/ IterateWake /\ CtlOnly
    \/ \E b \in BOOLEAN : Complete(b) /\ CtlOnly
    \/ \E m \in Msgs : SetError(m) /\ CtlOnly
    \/ LoadLatestCheckpoint /\ CtlOnly
    \/ CrashInSave /\ CtlOnly

SpecTot == InitTot /\ [][NextTot]_vars

\* --------------------------------------------------------------- SpecCkpt
\* The checkpoint store over time: the clock advances between operations,
\* state_data takes values of any Python type, checkpoints are loaded back.
NextCkpt ==
    \/ Start /\ CtlOnly
    \/ Stop /\ CtlOnly
    \/ \E ph \in PhaseArgs : SetPhase(ph) /\ CtlOnly
    \/ Iterate /\ CtlOnly
    \/ \E d \in AnyDicts : UpdateState(d) /\ CtlOnly
    \/ \E t \in 0..MaxClock : LoadCheckpoint(t) /\ CtlOnly
    \/ LoadLatestCheckpoint /\ CtlOnly
    \/ Tick /\ CtlOnly

SpecCkpt == Init /\ [][NextCkpt]_vars

\* ---------------------------------------------------------------- SpecCtl
\* One run of a loop: start() once, then the loop task calls iterate() while
\* the control side calls pause(), resume() and stop() at any moment.
NextCtl ==
    \/ state = IDLE /\ Start /\ CtlOnly
    \/ Pause /\ CtlOnly
    \/ Resume /\ CtlOnly
    \/ Stop /\ CtlOnly
    \/ state # IDLE /\ Iterate /\ CtlOnly
    \/ IterateWake /\ CtlOnly
    \/ Tick /\ CtlOnly

SpecCtl == Init /\ [][NextCtl]_vars

\* --------------------------------------------------------------- SpecFine
\* The methods as the main thread executes them, one statement at a time.
\* mpc = [op, step]: the method in progress and the next statement of it.
MainIdle == mpc.op = "none"
Return == mpc' = [op |-> "none", step |-> 0]
Goto(n) == mpc' = [mpc EXCEPT !.step = n]

\* a task calls pause(), resume() or stop() on the main thread
MainCall(op) ==
    /\ MainIdle
    /\ mpc' = [op |-> op, step |-> 1]
    /\ Did(op, NoRet)
    /\ emitted' = <<>>
    /\ UNCHANGED <<ctlVars, files, clock, disk, pc, regVars, pipeVars>>

\* pause(), statement by statement
PauseStmt ==
    /\ mpc.op = "pause"
    /\ Did("pause", NoRet)
    /\ CASE mpc.step = 1 ->  \* if self._state == RUNNING: self._state = PAUSED
              /\ IF state = RUNNING
                 THEN state' = PAUSED /\ Goto(2)
                 ELSE UNCHANGED state /\ Return
              /\ emitted' = <<>>
              /\ NoSave
              /\ UNCHANGED pause_event
         [] mpc.step = 2 ->  \* self._pause_event.clear()
              /\ pause_event' = FALSE
              /\ Goto(3)
              /\ emitted' = <<>>
              /\ NoSave
              /\ UNCHANGED state
         [] OTHER ->         \* self._emit_status(); self._save_checkpoint()
              /\ emitted' = EmitStatus(state, current_iteration, current_phase,
                                       last_checkpoint, error_message)
              /\ SaveCheckpoint(current_iteration, current_phase)
              /\ Return
              /\ UNCHANGED <<state, pause_event>>
    /\ UNCHANGED <<current_iteration, current_phase, state_data, error_message,
                   stop_requested, checkpoint_interval, max_iterations, clock, disk, pc, regVars, pipeVars>>

\* resume(), statement by statement
ResumeStmt ==
    /\ mpc.op = "resume"
    /\ Did("resume", NoRet)
    /\ CASE mpc.step = 1 ->  \* if self._state == PAUSED: self._state = RUNNING
              /\ IF state = PAUSED
                 THEN state' = RUNNING /\ Goto(2)
                 ELSE UNCHANGED state /\ Return
              /\ emitted' = <<>>
              /\ UNCHANGED <<pause_event, pc>>
         [] mpc.step = 2 ->  \* self._pause_event.set()
              /\ pause_event' = TRUE
              /\ pc' = EventSet(pc)
              /\ Goto(3)
              /\ emitted' = <<>>
              /\ UNCHANGED state
         [] OTHER ->         \* self._emit_status()
              /\ emitted' = EmitStatus(state, current_iteration, current_phase,
                                       last_checkpoint, error_message)
              /\ Return
              /\ UNCHANGED <<state, pause_event, pc>>
    /\ NoSave
    /\ UNCHANGED <<current_iteration, current_phase, state_data, error_message,
                   stop_requested, checkpoint_interval, max_iterations, clock, disk, regVars, pipeVars>>

\* stop(), statement by statement
StopStmt ==
    /\ mpc.op = "stop"
    /\ Did("stop", NoRet)
    /\ CASE mpc.step = 1 ->  \* self._stop_requested = True
              /\ stop_requested' = TRUE
              /\ Goto(2)
              /\ NoSave
              /\ UNCHANGED <<pause_event, pc>>
         [] mpc.step = 2 ->  \* self._pause_event.set()
              /\ pause_event' = TRUE
              /\ pc' = EventSet(pc)
              /\ Goto(3)
              /\ NoSave
              /\ UNCHANGED stop_requested
         [] OTHER ->         \* self._save_checkpoint()
              /\ SaveCheckpoint(current_iteration, current_phase)
              /\ Return
              /\ UNCHANGED <<stop_requested, pause_event, pc>>
    /\ emitted' = <<>>
    /\ UNCHANGED <<state, current_iteration, current_phase, state_data,
                   error_message, checkpoint_interval, max_iterations, clock, disk, regVars, pipeVars>>

\* the loop task calls iterate(): it enters the body when the event is set
\* and suspends (leaving the main thread to other tasks) when it is not
IterateCall ==
    /\ MainIdle
    /\ pc = "idle"
    /\ state # IDLE
    /\ current_iteration < IterCap
    /\ IF pause_event
       THEN mpc' = [op |-> "iterate", step |-> 1] /\ UNCHANGED pc
       ELSE pc' = "iterate_waiting" /\ UNCHANGED mpc
    /\ Did("iterate_called", NoRet)
    /\ emitted' = <<>>
    /\ UNCHANGED <<ctlVars, files, clock, disk, regVars, pipeVars>>

\* the event loop schedules the woken iterate() again
IterateResumed ==
    /\ MainIdle
    /\ pc = "iterate_woken"
    /\ mpc' = [op |-> "iterate", step |-> 1]
    /\ pc' = "idle"
    /\ Did("iterate_called", NoRet)
    /\ emitted' = <<>>
    /\ UNCHANGED <<ctlVars, files, clock, disk, regVars, pipeVars>>

\* the body of iterate(), statement by statement
IterateStmt ==
    /\ mpc.op = "iterate"
    /\ CASE mpc.step = 1 ->  \* if self.should_stop(): ... else: += 1
              /\ IF ShouldStop
                 THEN /\ state' = STOPPED
                      /\ Did("iterate", <<Sentinel>>)
                      /\ Return
                      /\ UNCHANGED current_iteration
                 ELSE /\ current_iteration' = current_iteration + 1
                      /\ Did("iterate_called", NoRet)
                      /\ Goto(2)
                      /\ UNCHANGED state
              /\ emitted' = <<>>
              /\ NoSave
         [] OTHER ->         \* periodic checkpoint, _emit_status(), return
              /\ IF current_iteration % checkpoint_interval = 0
                 THEN SaveCheckpoint(current_iteration, current_phase)
                 ELSE NoSave
              /\ emitted' = EmitStatus(state, current_iteration, current_phase,
                                       last_checkpoint', error_message)
              /\ Did("iterate", <<current_iteration>>)
              /\ Return
              /\ UNCHANGED <<state, current_iteration>>
    /\ UNCHANGED <<current_phase, state_data, error_message, pause_event,
                   stop_requested, checkpoint_interval, max_iterations, clock, disk, pc, regVars, pipeVars>>

\* handle_pause / the SIGUSR2 lambda / handle_stop: a signal handler runs its
\* method to the end between two statements of the main thread
SigUsr1 == Pause /\ UNCHANGED <<mpc, regVars, pipeVars>>
SigUsr2 == Resume /\ UNCHANGED <<mpc, regVars, pipeVars>>
SigTerm == Stop /\ UNCHANGED <<mpc, regVars, pipeVars>>

NextFine ==
    \/ state = IDLE /\ MainIdle /\ Start /\ CtlOnly
    \/ \E op \in {"pause", "resume", "stop"} : MainCall(op)
    \/ PauseStmt
    \/ ResumeStmt
    \/ StopStmt
    \/ IterateCall
    \/ IterateResumed
    \/ IterateStmt
    \/ SigUsr1
    \/ SigUsr2
    \/ SigTerm

SpecFine == Init /\ [][NextFine]_vars

\* -------------------------------------------------------------- SpecDebate
\* One _run_debate call with any answers of the two agents
InitDebateSpec ==
    /\ InitController
    /\ checkpoint_interval = 1
    /\ max_iterations = PipelineMaxIterations
    /\ disk = "ok"
    /\ mpc = [op |-> "none", step |-> 0]
    /\ InitManager /\ git_available
    /\ repo = NoRepo
    /\ InitDebate
    /\ pipe = NoRun

NextDebate ==
    \/ \E ph \in DebatePhases : DebateBegin(ph) /\ DebateOnly
    \/ \E o \in ConstructiveTexts : DebateConstructive(o) /\ DebateOnly
    \/ \E o \in AdversarialTexts : DebateAdversarial(o) /\ DebateOnly
    \/ \E e \in ActorExcs : DebateRaise(e) /\ DebateOnly

SpecDebate == InitDebateSpec /\ [][NextDebate]_vars

\* ---------------------------------------------------------------- SpecPipe
\* One run() call of the pipeline with its controller, while the operator
\* calls pause(), resume() and stop() and the agents answer or raise
InitPipe ==
    /\ InitController
    /\ checkpoint_interval = 1
    /\ max_iterations = PipelineMaxIterations
    /\ disk = "ok"
    /\ mpc = [op |-> "none", step |-> 0]
    /\ InitManager /\ git_available
    /\ repo = NoRepo
    /\ InitDebate
    /\ pipe = NoRun

InDebate == pipe.pc = "debate"

NextPipe ==
    \/ RunStart
    \/ RunSetPhase
    \/ RunWait
    \/ RunWaitWake
    \/ RunCheck
    \/ RunIntake(TxtDraft1)
    \/ \E e \in ActorExcs : RunAgentRaise(e)
    \/ RunDebateBegin
    \/ InDebate /\ DebateConstructive(TxtDraft1) /\ DebateOnly
    \/ \E o \in {TxtNo, TxtLower} : InDebate /\ DebateAdversarial(o) /\ DebateOnly
    \/ \E e \in ActorExcs : InDebate /\ DebateRaise(e) /\ DebateOnly
    \/ RunDebateDone
    \/ RunDebateRaised
    \/ RunCatch
    \/ RunUpdate
    \/ RunIterate
    \/ RunIterateWake
    \/ RunSynthesis(TxtDraft2)
    \/ RunComplete
    \/ Pause /\ CtlOnly
    \/ Resume /\ CtlOnly
    \/ Stop /\ CtlOnly

SpecPipe == InitPipe /\ [][NextPipe]_vars

\* ------------------------------------------------------------ SessionManager
CtlIdle == UNCHANGED <<ctlVars, files, clock, disk, emitted, pc, mpc, pipeVars, repo>>

\* SessionInfo(session_id, case_id, case_path, created_at, status,
\* last_checkpoint, git_commit); created_at is not looked at by any
\* operation and last_checkpoint is never assigned
SessionInfo(sid, cid, path, status, commit) ==
    [session_id |-> sid, case_id |-> cid, case_path |-> path, status |-> status,
     git_commit |-> commit]

\* str(case_path) / Path(text); json.dump of Optional[str] git_commit
PathStr(path) == <<"str", path>>
PathOf(text) == text[2]
JsonNull == <<"null">>
JsonOptional(v) == IF v = NoCommit THEN JsonNull ELSE <<"json", v>>
OptionalOf(x) == IF x = JsonNull THEN NoCommit ELSE x[2]

\* json.dump(session.to_dict(), f): the text of .adk_session.json
SessionToDict(session) ==
    [session_id |-> session.session_id, case_id |-> session.case_id,
     case_path |-> PathStr(session.case_path), status |-> session.status,
     git_commit |-> JsonOptional(session.git_commit)]

\* the SessionInfo object registered for a session id
Registered(sid) == session_objs[active_sessions[sid]]

\* str(uuid.uuid4()): an id no session has had
UsedIds == {session_objs[i].session_id : i \in DOMAIN session_objs}
FreshId ==
    CHOOSE i \in SessionIds \ UsedIds : \A j \in SessionIds \ UsedIds : i <= j

Put(f, k, v) == [x \in DOMAIN f \cup {k} |-> IF x = k THEN v ELSE f[x]]
Del(f, k) == [x \in DOMAIN f \ {k} |-> f[x]]

\* GitStateBackend(repo_path): _ensure_initialized makes the [INIT] commit of
\* a workspace that has no repository yet
EnsureInitialized(c, path) ==
    IF git_available /\ c[path] = 0 THEN [c EXCEPT ![path] = 1] ELSE c

\* _validate_case_path(case_path): the exception it raises
ValidateCasePath(path) ==
    CASE PathKind[path] \in {"file", "orphan"} -> "ValueError"
      [] PathKind[path] \in {"dir_ro", "new_ro"} -> "PermissionError"
      [] OTHER -> NoExc

\* GitStateBackend(case_path) raises: _ensure_initialized runs its commands
\* with check=True and catches nothing
InitRaises(path, git) == git_available /\ commits[path] = 0 /\ git = "fails"

\* create_session from _create_case_structure on
CreateSessionBody(path, case_id, git) ==
    IF InitRaises(path, git)
    THEN /\ Outcome("create_session", NoRet, "CalledProcessError")
         /\ UNCHANGED <<session_file, active_sessions, commits, session_objs>>
    ELSE LET sid == FreshId
             c1 == EnsureInitialized(commits, path)
             hash == c1[path] + 1
             obj == Len(session_objs) + 1
             session == SessionInfo(sid, case_id, path, "active", NoCommit)
         IN  /\ session_file' = [session_file EXCEPT ![path] = <<SessionToDict(session)>>]
             /\ active_sessions' = Put(active_sessions, sid, obj)
             /\ IF git_available /\ git = "ok"
                THEN /\ commits' = [c1 EXCEPT ![path] = hash]
                     /\ session_objs' =
                           Append(session_objs, [session EXCEPT !.git_commit = hash])
                ELSE /\ commits' = c1
                     /\ session_objs' = Append(session_objs, session)
             /\ Did("create_session", <<sid>>)

\* create_session without _validate_case_path
CreateSessionUnchecked(path, case_id, git) ==
    /\ SessionIds \ UsedIds # {}
    /\ Len(session_objs) < MaxObjects
    /\ CreateSessionBody(path, case_id, git)
    /\ UNCHANGED <<pipelines, run, git_available, routeVars>>
    /\ CtlIdle

\* create_session(case_path, case_id)
CreateSession(path, case_id, git) ==
    /\ SessionIds \ UsedIds # {}
    /\ Len(session_objs) < MaxObjects
    /\ IF ValidateCasePath(path) # NoExc
       THEN /\ Outcome("create_session", NoRet, ValidateCasePath(path))
            /\ UNCHANGED <<session_file, active_sessions, commits, session_objs>>
       ELSE CreateSessionBody(path, case_id, git)
    /\ UNCHANGED <<pipelines, run, git_available, routeVars>>
    /\ CtlIdle

\* SessionInfo(...) built by resume_session from the loaded descriptor
Resumed(d, status) ==
    SessionInfo(d.session_id, d.case_id, PathOf(d.case_path), status,
                OptionalOf(d.git_commit))

\* resume_session that keeps the status of the descriptor
ResumeSessionKeepsStatus(path) ==
    /\ Len(session_objs) < MaxObjects
    /\ IF session_file[path] = <<>>
       THEN /\ Outcome("resume_session", NoRet, "FileNotFoundError")
            /\ UNCHANGED <<active_sessions, session_objs>>
       ELSE LET d == session_file[path][1]
            IN  /\ session_objs' = Append(session_objs, Resumed(d, d.status))
                /\ active_sessions' =
                      Put(active_sessions, d.session_id, Len(session_objs) + 1)
                /\ Did("resume_session", <<d.session_id>>)
    /\ UNCHANGED <<pipelines, run, session_file, git_available, commits, routeVars>>
    /\ CtlIdle

\* resume_session(case_path)
ResumeSession(path) ==
    /\ Len(session_objs) < MaxObjects
    /\ IF session_file[path] = <<>>
       THEN /\ Outcome("resume_session", NoRet, "FileNotFoundError")
            /\ UNCHANGED <<active_sessions, session_objs>>
       ELSE LET d == session_file[path][1]
            IN  /\ session_objs' = Append(session_objs, Resumed(d, "active"))
                /\ active_sessions' =
                      Put(active_sessions, d.session_id, Len(session_objs) + 1)
                /\ Did("resume_session", <<d.session_id>>)
    /\ UNCHANGED <<pipelines, run, session_file, git_available, commits, routeVars>>
    /\ CtlIdle

\* run_pipeline(session_id, consultation) up to its first suspension, inside
\* `await pipeline.run(consultation)`: run() has built its LoopController
\* (whose __init__ binds the signal handlers to it), made it the global
\* controller and started it
RunBegin(t, sid) ==
    /\ run[t].pc = "idle"
    /\ IF sid \notin DOMAIN active_sessions
       THEN /\ run' = [run EXCEPT ![t] = [NoCall EXCEPT !.pc = "done", !.sid = sid,
                                                       !.raised = "KeyError"]]
            /\ Did("run_pipeline_KeyError", <<sid>>)
            /\ UNCHANGED <<pipelines, routeVars>>
       ELSE /\ pipelines' = Put(pipelines, sid, t)
            /\ run' = [run EXCEPT ![t] = [NoCall EXCEPT !.pc = "running", !.sid = sid,
                                                       !.obj = active_sessions[sid]]]
            /\ loops' = [loops EXCEPT ![t] = [NoLoop EXCEPT !.state = RUNNING]]
            /\ signal_target' = t
            /\ global_controller' = t
            /\ Did("run_pipeline_started", <<sid>>)
    /\ UNCHANGED <<active_sessions, session_objs, session_file, git_available,
                   commits>>
    /\ CtlIdle

\* PipelineResultSummary(success, ..., error)
Summary(success, error) == [success |-> success, error |-> error]

\* the state in which pipeline.run leaves its controller
LoopAfter(l, outcome) ==
    CASE outcome = "success" -> [l EXCEPT !.state = COMPLETED]
      [] outcome = "failure" -> [l EXCEPT !.state = ERROR]
      [] OTHER -> l

\* run_pipeline from the end of pipeline.run to its own end.
\*   outcome: pipeline.run returned with metadata["success"] True ("success"),
\*     returned after `except Exception` ("failure") or after `except
\*     InterruptedError`, the stop flag seen at a phase boundary
\*     ("interrupted"); it raised an Exception ("raised") or a BaseException
\*     ("cancelled")
\*   io: what writing a file of the workspace does during the call
\*   git: what the git commands do during the call
RunFinish(t, outcome, io, git) ==
    /\ run[t].pc = "running"
    /\ outcome = "interrupted" => loops[t].stop_requested
    /\ LET sid == run[t].sid
           session == session_objs[run[t].obj]
           path == session.case_path
           c1 == EnsureInitialized(commits, path)
           hash == c1[path] + 1
           returned == outcome \in {"success", "failure", "interrupted"}
           backend == returned /\ io = NoExc /\ git_available
           handled == \/ outcome = "raised"
                      \/ returned /\ io # NoExc
                      \/ backend /\ InitRaises(path, git)
           committed == backend /\ git = "ok"
           status == IF returned /\ ~handled /\ outcome = "success"
                     THEN "completed" ELSE "error"
           updated == [session EXCEPT
                         !.status = status,
                         !.git_commit = CASE committed -> hash
                                          [] backend /\ ~handled -> NoCommit
                                          [] OTHER -> @]
       IN  /\ commits' = IF committed THEN [c1 EXCEPT ![path] = hash] ELSE commits
           /\ session_objs' = IF outcome = "cancelled" THEN session_objs
                              ELSE [session_objs EXCEPT ![run[t].obj] = updated]
           /\ session_file' = IF outcome = "cancelled" \/ io # NoExc THEN session_file
                              ELSE [session_file EXCEPT ![path] = <<SessionToDict(updated)>>]
           /\ pipelines' = IF sid \in DOMAIN pipelines THEN Del(pipelines, sid)
                           ELSE pipelines
           /\ run' = [run EXCEPT
                        ![t].pc = "done",
                        ![t].outcome = outcome,
                        ![t].raised = CASE outcome = "cancelled" -> "CancelledError"
                                        [] handled /\ io # NoExc -> io
                                        [] OTHER -> NoExc,
                        ![t].summary =
                            CASE outcome = "cancelled" -> <<>>
                              [] handled /\ io # NoExc -> <<>>
                              [] handled -> <<Summary(FALSE, "str(e)")>>
                              [] OTHER -> <<Summary(outcome = "success", NoneMsg)>>]
           /\ loops' = [loops EXCEPT ![t] = LoopAfter(@, outcome)]
           /\ Outcome("run_pipeline_returned", <<sid>>, run'[t].raised)
    /\ UNCHANGED <<active_sessions, git_available, global_controller, signal_target>>
    /\ CtlIdle

\* pause() / resume() / stop() on the controller of a run
LoopCall(m, l) ==
    CASE m = "pause" ->
           IF l.state = RUNNING
           THEN [l EXCEPT !.state = PAUSED, !.pause_event = FALSE] ELSE l
      [] m = "resume" ->
           IF l.state = PAUSED
           THEN [l EXCEPT !.state = RUNNING, !.pause_event = TRUE] ELSE l
      [] m = "stop" ->
           [l EXCEPT !.stop_requested = TRUE, !.pause_event = TRUE]

\* pause_pipeline / resume_pipeline / stop_pipeline(session_id)
ProxyName == [pause |-> "pause_pipeline", resume |-> "resume_pipeline",
              stop |-> "stop_pipeline"]
Proxy(m, sid) ==
    /\ IF sid \notin DOMAIN pipelines
       THEN /\ Did(ProxyName[m], <<sid, FALSE>>)
            /\ UNCHANGED loops
       ELSE /\ loops' = [loops EXCEPT ![pipelines[sid]] = LoopCall(m, @)]
            /\ Did(ProxyName[m], <<sid, TRUE>>)
    /\ UNCHANGED <<active_sessions, session_objs, pipelines, run, session_file,
                   git_available, commits, global_controller, signal_target>>
    /\ CtlIdle

\* SIGUSR1 / SIGUSR2 / SIGTERM delivered to the process (route "signal"), or
\* pause_global() / resume_global() / stop_global() called (route "global"),
\* once a controller has been built
ControlVia(route, m) ==
    LET target == IF route = "signal" THEN signal_target ELSE global_controller
    IN  /\ target # NoTask
        /\ loops' = [loops EXCEPT ![target] = LoopCall(m, @)]
        /\ Did(route, <<m>>)
        /\ UNCHANGED <<active_sessions, session_objs, pipelines, run, session_file,
                       git_available, commits, global_controller, signal_target>>
        /\ CtlIdle

\* what writing a file of the workspace can do
IoOutcomes == {NoExc, "OSError"}
RunOutcomes == {"success", "failure", "interrupted", "raised", "cancelled"}

NextReg ==
    \/ \E p \in AllPaths : CreateSession(p, "c1", "ok")
    \/ \E p \in Paths : ResumeSession(p)
    \/ \E t \in Tasks, sid \in SessionIds : RunBegin(t, sid)
    \/ \E t \in Tasks, r \in {"success", "failure", "raised"} :
          RunFinish(t, r, NoExc, "ok")

SpecReg == InitReg /\ [][NextReg]_vars

\* ------------------------------------------------------------ GitStateBackend
\* A git command of a call either does what git does or, when the git
\* outcome of the call is "fails", exits with a non-zero status and an empty
\* stdout.  The index is not a variable: every call that stages also commits.

\* a backend that takes git to be there whatever _check_git_available found
IsAvailableAlways == TRUE

\* is_available / `if not self._git_available`
IsAvailable == git_available

\* the part of a work tree that .gitignore does not exclude
Tracked(tree) == [f \in WorkFiles \ Ignored |-> tree[f]]

\* a commit: its hash (here its position in the history) and its tree
Revision(hash, tree) == [hash |-> hash, tree |-> tree]

\* the tree of HEAD
HeadTree(r) ==
    IF r.history = <<>> THEN [f \in WorkFiles \ Ignored |-> Absent]
    ELSE r.history[Len(r.history)].tree

\* has_changes(): `git status --porcelain` prints something
HasChanges(r, git) == IsAvailable /\ git = "ok" /\ Tracked(r.tree) # HeadTree(r)

\* the other GitStateBackend actions leave everything but the workspace alone
GitOnly ==
    UNCHANGED <<ctlVars, envVars, pc, mpc, pipeVars, active_sessions, session_objs,
                pipelines, run, session_file, git_available, commits, routeVars>>

\* GitStateBackend(repo_path): _check_git_available and _ensure_initialized
GitConstruct(git) ==
    /\ IF IsAvailable /\ ~repo.git_dir
       THEN IF git = "ok"
            THEN /\ repo' = [repo EXCEPT
                               !.backend = TRUE, !.git_dir = TRUE,
                               !.history = <<Revision(1, HeadTree(NoRepo))>>]
                 /\ Did("GitStateBackend", NoRet)
            ELSE /\ UNCHANGED repo
                 /\ Outcome("GitStateBackend", NoRet, "CalledProcessError")
       ELSE /\ repo' = [repo EXCEPT !.backend = TRUE]
            /\ Did("GitStateBackend", NoRet)
    /\ GitOnly

\* add_all()
GitAddAll(git) ==
    /\ repo.backend
    /\ Did("add_all", <<IsAvailable /\ git = "ok">>)
    /\ UNCHANGED repo /\ GitOnly

\* has_changes()
GitHasChanges(git) ==
    /\ repo.backend
    /\ Did("has_changes", <<HasChanges(repo, git)>>)
    /\ UNCHANGED repo /\ GitOnly

\* a commit() that does not look for changes
GitCommitAlways(git) ==
    /\ repo.backend
    /\ (IsAvailable /\ git = "ok") => Len(repo.history) <= MaxCommits
    /\ IF IsAvailable /\ git = "ok"
       THEN LET hash == Len(repo.history) + 1
            IN  /\ repo' = [repo EXCEPT
                              !.history = Append(@, Revision(hash, Tracked(repo.tree)))]
                /\ Did("commit", <<hash>>)
       ELSE /\ UNCHANGED repo
            /\ Did("commit", NoRet)
    /\ GitOnly

\* commit(message, auto, phase): add_all(), has_changes(), `git commit`,
\* `git rev-parse HEAD`
GitCommit(git) ==
    /\ repo.backend
    /\ HasChanges(repo, git) => Len(repo.history) <= MaxCommits
    /\ IF HasChanges(repo, git)
       THEN LET hash == Len(repo.history) + 1
            IN  /\ repo' = [repo EXCEPT
                              !.history = Append(@, Revision(hash, Tracked(repo.tree)))]
                /\ Did("commit", <<hash>>)
       ELSE /\ UNCHANGED repo
            /\ Did("commit", NoRet)
    /\ GitOnly

\* get_history(): the hashes of `git log`, the newest first
GitHistory(git) ==
    /\ repo.backend
    /\ LET n == Len(repo.history)
       IN  Did("get_history",
               <<IF IsAvailable /\ git = "ok"
                 THEN [i \in 1..n |-> repo.history[n + 1 - i].hash] ELSE <<>>>>)
    /\ UNCHANGED repo /\ GitOnly

\* `git show <hash>:<file>` / `git checkout <hash> -- <file>` succeeds
InCommit(r, file, hash, git) ==
    /\ IsAvailable /\ git = "ok"
    /\ hash \in DOMAIN r.history
    /\ file \notin Ignored
    /\ r.history[hash].tree[file] # Absent

\* get_file_at_commit(filepath, commit_hash)
GitFileAt(file, hash, git) ==
    /\ repo.backend
    /\ Did("get_file_at_commit",
           IF InCommit(repo, file, hash, git)
           THEN <<repo.history[hash].tree[file]>> ELSE NoRet)
    /\ UNCHANGED repo /\ GitOnly

\* restore_file(filepath, commit_hash)
GitRestore(file, hash, git) ==
    /\ repo.backend
    /\ IF InCommit(repo, file, hash, git)
       THEN /\ repo' = [repo EXCEPT !.tree[file] = repo.history[hash].tree[file]]
            /\ Did("restore_file", <<TRUE>>)
       ELSE /\ UNCHANGED repo
            /\ Did("restore_file", <<FALSE>>)
    /\ GitOnly

\* get_diff("HEAD"): the text of `git diff HEAD`, here the files it names
GitDiff(git) ==
    /\ repo.backend
    /\ Did("get_diff",
           <<IF IsAvailable /\ git = "ok"
             THEN {f \in WorkFiles \ Ignored :
                     HeadTree(repo)[f] # Absent /\ repo.tree[f] # HeadTree(repo)[f]}
             ELSE {}>>)
    /\ UNCHANGED repo /\ GitOnly

\* create_tag(tag_name): `git tag` refuses a name that exists
GitTag(name, git) ==
    /\ repo.backend
    /\ IF IsAvailable /\ git = "ok" /\ name \notin DOMAIN repo.tags
       THEN /\ repo' = [repo EXCEPT !.tags = Put(@, name, Len(repo.history))]
            /\ Did("create_tag", <<TRUE>>)
       ELSE /\ UNCHANGED repo
            /\ Did("create_tag", <<FALSE>>)
    /\ GitOnly

\* get_status_summary()
GitStatus(git) ==
    /\ repo.backend
    /\ Did("get_status_summary",
           <<IF ~IsAvailable THEN [available |-> FALSE]
             ELSE [available |-> TRUE, has_changes |-> HasChanges(repo, git),
                   last_commit |-> IF git = "ok" THEN Len(repo.history) ELSE NoCommit,
                   commit_count |-> IF git = "ok" THEN Len(repo.history) ELSE 0]>>)
    /\ UNCHANGED repo /\ GitOnly

\* a file of the workspace is written or removed (by the pipeline or the user)
WriteWorkFile(file, content) ==
    /\ repo' = [repo EXCEPT !.tree[file] = content]
    /\ Did("write_file", NoRet)
    /\ GitOnly

\* ---------------------------------------------------------------- SpecGit
\* One workspace and the GitStateBackend objects built on it, on a host with
\* or without git, while files of the workspace change
NextGit ==
    \/ \E g \in GitOutcomes : GitConstruct(g)
    \/ \E g \in GitOutcomes : GitAddAll(g)
    \/ \E g \in GitOutcomes : GitHasChanges(g)
    \/ \E g \in GitOutcomes : GitCommit(g)
    \/ \E g \in GitOutcomes : GitHistory(g)
    \/ \E f \in WorkFiles, h \in 1..(MaxCommits + 2), g \in GitOutcomes : GitFileAt(f, h, g)
    \/ \E f \in WorkFiles, h \in 1..(MaxCommits + 2), g \in GitOutcomes : GitRestore(f, h, g)
    \/ \E g \in GitOutcomes : GitDiff(g)
    \/ \E n \in TagNames, g \in GitOutcomes : GitTag(n, g)
    \/ \E g \in GitOutcomes : GitStatus(g)
    \/ \E f \in WorkFiles, c \in Contents \cup {Absent} : WriteWorkFile(f, c)

SpecGit == InitReg /\ [][NextGit]_vars

\* --------------------------------------------------------------- SpecLife
\* The descriptor of a session through create_session, run_pipeline and
\* resume_session, on a host with or without git and with git commands that
\* may fail
NextLife ==
    \/ \E p \in Paths, c \in CaseIds, g \in GitOutcomes : CreateSession(p, c, g)
    \/ \E p \in Paths : ResumeSession(p)
    \/ \E sid \in SessionIds : RunBegin("t1", sid)
    \/ \E r \in {"success", "failure"}, g \in GitOutcomes :
          RunFinish("t1", r, NoExc, g)

SpecLife == InitReg /\ [][NextLife]_vars

\* --------------------------------------------------------------- SpecSess
\* Sessions and their runs with every way a run can end, while the registry
\* is asked to stop them
InitSess == InitReg /\ git_available

NextSess ==
    \/ \E p \in Paths : CreateSession(p, "c1", "ok")
    \/ \E t \in Tasks, sid \in SessionIds : RunBegin(t, sid)
    \/ \E t \in Tasks, r \in RunOutcomes, io \in IoOutcomes : RunFinish(t, r, io, "ok")
    \/ \E sid \in SessionIds : Proxy("stop", sid)

SpecSess == InitSess /\ [][NextSess]_vars

\* -------------------------------------------------------------- SpecRoute
\* Sessions with their runs under control requests: the proxies of the
\* registry, the module-level functions and the process signals
NextRoute ==
    \/ \E p \in Paths : CreateSession(p, "c1", "ok")
    \/ \E t \in Tasks, sid \in SessionIds : RunBegin(t, sid)
    \/ \E t \in Tasks : RunFinish(t, "success", NoExc, "ok")
    \/ \E m \in Methods, sid \in SessionIds : Proxy(m, sid)
    \/ \E r \in Routes, m \in Methods : ControlVia(r, m)

SpecRoute == InitSess /\ [][NextRoute]_vars

\* ----------------------------------------------------------- claims (Spec)
Waiting == pc \in {"iterate_waiting", "wait_waiting"}
Terminal == {COMPLETED, ERROR, STOPPED}
\* the operations of the controller (an iterate() that suspends included)
ControlOps == {"start", "pause", "resume", "stop", "set_phase", "iterate",
               "iterate_blocked", "complete", "set_error"}

\* C2: a stop() call leaves no caller suspended on the gate, whatever the
\* loop state was: after stop() the gate is open and a caller that was
\* blocked in wait_if_paused() has been woken.
C2_StopUnblocksWaiter ==
    [][last'.op = "stop" =>
          /\ pause_event'
          /\ pc' \notin {"iterate_waiting", "wait_waiting"}
          /\ (pc = "wait_waiting" => pc' = "wait_woken")
          /\ (pc = "iterate_waiting" => pc' = "iterate_woken")]_vars

\* stop() has just woken a caller blocked in wait_if_paused() while the loop
\* state was not Paused
C2_Witness ==
    last.op = "stop" /\ pc = "wait_woken" /\ state = COMPLETED

\* C6: pause() called in a state other than Running changes nothing (state,
\* gate, stop flag, iteration, phase, persisted checkpoints) and emits no
\* status event.
C6_PauseNoOp ==
    [][(last'.op = "pause" /\ state # RUNNING) =>
          /\ UNCHANGED <<ctlVars, files, pc>>
          /\ emitted' = <<>>]_vars

\* pause() was called on a loop that is Stopped
C6_Witness == last.op = "pause" /\ state = STOPPED

\* C7: resume() called in a state other than Paused changes nothing and
\* emits no status event; called in Paused it sets Running and opens the gate.
C7_ResumeOnlyFromPaused ==
    [][last'.op = "resume" =>
          IF state = PAUSED
          THEN state' = RUNNING /\ pause_event' /\ ~Waiting'
          ELSE UNCHANGED <<ctlVars, files, pc>> /\ emitted' = <<>>]_vars

\* resume() was called on a Running loop whose gate is closed, and did nothing
C7_Witness == last.op = "resume" /\ state = RUNNING /\ ~pause_event

\* C8: stop() sets the stop flag and leaves state unchanged (the gate is open
\* afterwards, so a repeated stop() changes none of state, flag, gate); the
\* flag stays set until start(); an iterate() that runs with the flag set
\* sets Stopped, returns the sentinel and does not increment.
C8_StopThenIterate ==
    [][/\ (last'.op = "stop" =>
              stop_requested' /\ pause_event' /\ state' = state)
       /\ (stop_requested /\ ~stop_requested' => last'.op = "start")
       /\ (last'.op = "iterate" /\ stop_requested =>
              /\ state' = STOPPED
              /\ last'.ret = <<Sentinel>>
              /\ current_iteration' = current_iteration)
       /\ (last'.op = "iterate" /\ last'.ret = <<Sentinel>> => stop_requested)]_vars

\* iterate() has returned the sentinel after a stop() at iteration 1
C8_Witness ==
    /\ last.op = "iterate" /\ last.ret = <<Sentinel>>
    /\ state = STOPPED /\ stop_requested /\ current_iteration = 1

\* C9: current_iteration never exceeds max_iterations.
C9_IterationBound == current_iteration <= max_iterations

\* C10 as stated: once the state is Completed, Error or Stopped, no
\* operation changes it.
C10_TerminalAbsorbing == [][(state \in Terminal) => (state' = state)]_vars

\* C10 amended: a terminal state is left only by start() (to Running),
\* complete() (to Completed or Error), set_error() (to Error) or an iterate()
\* that sees the stop flag (to Stopped); pause(), resume(), stop(),
\* set_phase(), update_state(), wait_if_paused(), the checkpoint loads and an
\* iterate() without the stop flag leave it unchanged.
C10_TerminalLeftOnlyBy ==
    [][(state \in Terminal /\ state' # state) =>
          \/ last'.op = "start" /\ state' = RUNNING
          \/ last'.op = "complete" /\ state' \in {COMPLETED, ERROR}
          \/ last'.op = "set_error" /\ state' = ERROR
          \/ last'.op = "iterate" /\ stop_requested /\ state' = STOPPED]_vars

\* pause() and resume() were tried on a Completed loop, which is still Completed
C10_Witness ==
    /\ state = COMPLETED /\ last.op = "resume"
    /\ last_checkpoint # <<>> /\ ~stop_requested

\* C11: error_message is present exactly when the state is Error.
C11_ErrorMessageIffError == (error_message # NoneMsg) <=> (state = ERROR)

\* C12: start(), whatever the state it is called in, leaves state Running,
\* current_iteration 0 and the stop flag cleared.
C12_StartResets ==
    [][last'.op = "start" =>
          /\ state' = RUNNING
          /\ current_iteration' = 0
          /\ ~stop_requested']_vars

\* start() was called on a loop that had been paused at iteration 1 and then
\* asked to stop
C12_Witness ==
    /\ last.op = "start" /\ state = RUNNING /\ current_iteration = 0
    /\ ~stop_requested
    /\ last_checkpoint # <<>> /\ last_checkpoint[1].iteration = 1

\* C19: a pause() of a Running loop, a complete(success) and a
\* set_error(message) each write a checkpoint, so that after them the most
\* recent checkpoint is one made by that operation, with the iteration and
\* the phase the loop is at.
C19_CheckpointAtPauseAndEnd ==
    [][(\/ last'.op = "pause" /\ state = RUNNING
        \/ last'.op \in {"complete", "set_error"})
       => /\ last_checkpoint' # <<>>
          /\ ~aliased'
          /\ last_checkpoint'[1].iteration = current_iteration'
          /\ last_checkpoint'[1].phase = current_phase'
          /\ clock \in DOMAIN files'
          /\ files'[clock] = JsonDump(last_checkpoint'[1])]_vars

\* C20: every operation of the controller that changes state, current_phase
\* or current_iteration prints exactly one status event, which carries the
\* new values.
C20_StatusEventOnEveryChange ==
    [][(/\ last'.op \in ControlOps
        /\ \/ state' # state
           \/ current_phase' # current_phase
           \/ current_iteration' # current_iteration)
       => /\ Len(emitted') = 1
          /\ emitted'[1].state = state'
          /\ emitted'[1].current_phase = current_phase'
          /\ emitted'[1].current_iteration = current_iteration']_vars

\* the step is an operation that calls _save_checkpoint(): stop() and
\* complete() always, pause() on a Running loop, iterate() when the new
\* iteration is a multiple of checkpoint_interval
SaveStep ==
    \/ last'.op \in {"stop", "complete"}
    \/ last'.op = "pause" /\ state = RUNNING
    \/ /\ last'.op = "iterate" /\ ~stop_requested
       /\ current_iteration' % checkpoint_interval = 0

\* C14 as stated: every checkpoint written carries the argument of the most
\* recent set_phase call (the initial phase if there was none) and the
\* current iteration.
C14_PhaseOfLastSetPhase ==
    [][SaveStep =>
          /\ last_checkpoint'[1].phase = last.phase_arg
          /\ last_checkpoint'[1].iteration = current_iteration']_vars

\* C14 amended: every checkpoint written, in memory and in its file, carries
\* current_phase and current_iteration as they are at the write;
\* current_phase is changed only by set_phase (to its argument) and by a
\* checkpoint load (to the phase of the loaded checkpoint).
C14_PhaseAtWrite ==
    [][/\ (SaveStep =>
              /\ last_checkpoint'[1].phase = current_phase'
              /\ last_checkpoint'[1].iteration = current_iteration'
              /\ files'[clock].phase = current_phase'
              /\ files'[clock].iteration = current_iteration'
              /\ current_phase' = current_phase)
       /\ (last'.op = "set_phase" => current_phase' = last'.phase_arg)
       /\ (current_phase' # current_phase =>
              \/ last'.op = "set_phase"
              \/ /\ last'.op \in {"load_checkpoint", "load_latest_checkpoint"}
                 /\ last'.ret # NoRet
                 /\ current_phase' = last'.ret[1].phase)]_vars

\* a checkpoint was written at iteration 1 after set_phase("intake")
C14_Witness ==
    /\ last.op = "stop" /\ last.phase_arg = "intake"
    /\ last_checkpoint = <<Checkpoint(1, "intake", state_data, clock)>>
    /\ clock \in DOMAIN files /\ files[clock].phase = "intake"

\* -------------------------------------------------------- claims (SpecTot)
\* C13: no operation of the controller raises, whatever the state, the
\* checkpoint_interval and the outcome of the checkpoint file write.
C13_OperationsTotal == last.op \in ControlOps => last.raised = NoExc

\* C15: with a checkpoint directory that takes every write, whatever the
\* moment the process dies at, every checkpoint file in the directory holds
\* a complete checkpoint and no load fails on a partly written one.
C15_NoPartialCheckpointVisible ==
    disk = "ok" =>
        /\ \A t \in DOMAIN files : files[t] # Partial
        /\ last.raised # "JSONDecodeError"

\* ------------------------------------------------------- claims (SpecCkpt)
\* C16: every persisted checkpoint stays in the directory with the content
\* it was written with, whatever operation follows.
C16_CheckpointsImmutable ==
    [][\A t \in DOMAIN files :
          t \in DOMAIN files' /\ files'[t] = files[t]]_vars

\* the greatest timestamp among the persisted checkpoints
GreatestTimestamp == CHOOSE t \in DOMAIN files : \A u \in DOMAIN files : u <= t

\* C17: load_latest_checkpoint() returns the persisted checkpoint with the
\* greatest timestamp, and None when no checkpoint is persisted.
C17_LoadLatestIsGreatestTimestamp ==
    [][last'.op = "load_latest_checkpoint" =>
          IF DOMAIN files = {}
          THEN last'.ret = NoRet
          ELSE last'.ret = <<JsonLoad(files[GreatestTimestamp])>>]_vars

\* C18: loading the file a checkpoint was persisted to yields a checkpoint
\* with the same iteration, phase and state_data, and sets
\* current_iteration, current_phase and state_data to those values.
C18_CheckpointRoundTrip ==
    [][(/\ last'.op \in {"load_checkpoint", "load_latest_checkpoint"}
        /\ last'.ret # NoRet
        /\ last_checkpoint # <<>> /\ ~aliased
        /\ last'.ret[1].timestamp = last_checkpoint[1].timestamp
        /\ files[last_checkpoint[1].timestamp] = JsonDump(last_checkpoint[1]))
       => /\ last'.ret[1].iteration = last_checkpoint[1].iteration
          /\ last'.ret[1].phase = last_checkpoint[1].phase
          /\ last'.ret[1].state_data = last_checkpoint[1].state_data
          /\ current_iteration' = last_checkpoint[1].iteration
          /\ current_phase' = last_checkpoint[1].phase
          /\ state_data' = last_checkpoint[1].state_data]_vars

\* -------------------------------------------------------- claims (SpecCtl)
\* C3: an iterate() called while Paused with the stop flag unset suspends
\* without touching current_iteration; while it is suspended only resume()
\* (or stop()) lets it go on; a returning iterate() returns
\* current_iteration + 1 and stores it, and nothing else changes
\* current_iteration, so the numbers returned are consecutive.
C3_IterateBlocksThenNext ==
    [][/\ (pc = "idle" /\ state = PAUSED /\ ~stop_requested
           /\ last'.op \in {"iterate", "iterate_blocked"} =>
              /\ last'.op = "iterate_blocked"
              /\ pc' = "iterate_waiting"
              /\ current_iteration' = current_iteration)
       /\ (pc = "iterate_waiting" =>
              /\ last'.op # "iterate"
              /\ current_iteration' = current_iteration
              /\ (pc' # "iterate_waiting" => last'.op \in {"resume", "stop"})
              /\ (pc' # "iterate_waiting" /\ ~stop_requested' =>
                     last'.op = "resume"))
       /\ (last'.op = "iterate" /\ ~stop_requested =>
              /\ last'.ret = <<current_iteration + 1>>
              /\ current_iteration' = current_iteration + 1)
       /\ (current_iteration' # current_iteration =>
              last'.op = "iterate" /\ last'.ret = <<current_iteration'>>)]_vars

\* an iterate() called at iteration 1 while Paused has been woken by resume()
C3_Witness ==
    /\ pc = "iterate_woken" /\ last.op = "resume"
    /\ ~stop_requested /\ current_iteration = 1

\* C4: the loop is never suspended in wait_if_paused() while the stop flag
\* is set.
C4_NoWaitWhileStopRequested == ~(stop_requested /\ pc = "iterate_waiting")

\* ------------------------------------------------------- claims (SpecFine)
\* C5: when no control method is in progress, the gate is not closed while
\* the state is Running.
C5_NoTornControlState ==
    MainIdle => ~(state = RUNNING /\ ~pause_event)

\* -------------------------------------------------------- claims (SpecReg)
ActiveRuns(sid) == {t \in Tasks : run[t].pc = "running" /\ run[t].sid = sid}

\* C1: for every session id at most one run_pipeline call is in progress.
C1_AtMostOneActiveRun ==
    \A sid \in SessionIds : Cardinality(ActiveRuns(sid)) <= 1

\* C29: no two registered session ids have the same workspace path.
C29_OnePathOneSession ==
    \A s1, s2 \in DOMAIN active_sessions :
        s1 # s2 => Registered(s1).case_path # Registered(s2).case_path

\* C30: create_session on a path that exists and is not a directory raises
\* ValueError, and on a path to be created under a parent without write
\* permission raises PermissionError; neither registers a session, writes a
\* descriptor file or touches a repository.
C30_CreateSessionValidates ==
    [][\A p \in AllPaths :
         (PathKind[p] \in {"file", "new_ro"}
          /\ \E c \in CaseIds, g \in GitOutcomes : CreateSession(p, c, g)) =>
            /\ last'.raised = IF PathKind[p] = "file" THEN "ValueError"
                              ELSE "PermissionError"
            /\ UNCHANGED <<active_sessions, session_objs, session_file, commits,
                           pipelines>>]_vars

\* create_session has refused a path while a session was registered
C30_Witness ==
    /\ last.op = "create_session" /\ last.raised = "PermissionError"
    /\ active_sessions # <<>>

\* ----------------------------------------------------- claims (SpecDebate)
\* the answers of the adversarial agent, in the order of its invocations
AdversarialAnswers ==
    LET RECURSIVE Pick(_)
        Pick(cs) ==
            IF cs = <<>> THEN <<>>
            ELSE LET c == Head(cs)
                 IN  IF c.prompt.draft # <<>> /\ c.answer # <<>>
                     THEN <<c.answer[1]>> \o Pick(Tail(cs))
                     ELSE Pick(Tail(cs))
    IN  Pick(debate.calls)

\* the answers of the constructive agent, in the order of its invocations
ConstructiveAnswers ==
    LET RECURSIVE Pick(_)
        Pick(cs) ==
            IF cs = <<>> THEN <<>>
            ELSE LET c == Head(cs)
                 IN  IF c.prompt.draft = <<>> /\ c.answer # <<>>
                     THEN <<c.answer[1]>> \o Pick(Tail(cs))
                     ELSE Pick(Tail(cs))
    IN  Pick(debate.calls)

\* the text holds the approval marker "aprovado" in any letter case
HasMarker(text) ==
    LET Lower(c) == IF c \in 65..90 THEN c + 32 ELSE c
        marker == <<97, 112, 114, 111, 118, 97, 100, 111>>
    IN  \E i \in 1..(Len(text) - Len(marker) + 1) :
            \A j \in 1..Len(marker) : Lower(text[i + j - 1]) = marker[j]

\* C21: a debate that has returned stopped at the first round whose
\* adversarial answer holds the approval marker in any letter case, with
\* iterations = that round, converged and exit_reason "approved"; when no
\* answer holds it, iterations = max_debate_iterations, not converged and
\* exit_reason "max_iterations"; 1 <= iterations <= max_debate_iterations
\* and converged iff exit_reason = "approved".
C21_DebateConvergence ==
    debate.pc = "returned" =>
        LET r == debate.result
            adv == AdversarialAnswers
            n == Len(adv)
        IN  /\ r.iterations = n
            /\ 1 <= r.iterations /\ r.iterations <= max_debate_iterations
            /\ r.converged <=> (r.exit_reason = "approved")
            /\ \A i \in 1..(n - 1) : ~HasMarker(adv[i])
            /\ IF HasMarker(adv[n])
               THEN r.converged /\ r.exit_reason = "approved"
               ELSE /\ n = max_debate_iterations
                    /\ ~r.converged /\ r.exit_reason = "max_iterations"

\* a debate approved in its second round by an answer in mixed case
C21_Witness ==
    /\ debate.pc = "returned"
    /\ debate.result.converged /\ debate.result.iterations = 2
    /\ debate.adversarial_output = TxtMixed

\* C22: the final_output of a returned debate is the answer of the last
\* invocation of the constructive agent, whether the debate was approved or
\* ran out of rounds.
C22_FinalOutputIsLastConstructive ==
    debate.pc = "returned" =>
        /\ ConstructiveAnswers # <<>>
        /\ debate.result.final_output =
              ConstructiveAnswers[Len(ConstructiveAnswers)]

\* a debate that ran out of rounds, its last constructive answer longer than
\* the stored prefix and different from the first one
C22_Witness ==
    /\ debate.pc = "returned"
    /\ debate.result.exit_reason = "max_iterations"
    /\ Len(ConstructiveAnswers) = 2
    /\ ConstructiveAnswers[1] = TxtDraft1
    /\ debate.result.final_output = TxtLong

C24_ActorFailureRecorded ==
    [][(debate.pc = "raised") =>
         /\ debate' = debate
         /\ pipe'.phase = pipe.phase
         /\ pipe'.pc \in {"debate", "raised", "returned"}
         /\ (pipe.pc = "raised" /\ pipe'.pc # "raised") =>
               /\ last'.op = "set_error"
               /\ state' = ERROR
               /\ error_message' = ErrorMsg(debate.raised)
               /\ pipe'.pc = "returned"
               /\ pipe'.result.success = "false"]_vars

\* ------------------------------------------------------- claims (SpecSess)
\* the run_pipeline call of task t ends in this step
Ends(t) == run[t].pc # "done" /\ run'[t].pc = "done"

\* C25: run_pipeline for a session id that is not registered raises KeyError;
\* for a registered session no Exception raised during the call reaches the
\* caller: the call returns a summary, and when pipeline.run raised, the
\* session has status "error" and the summary has success false.
\* (A BaseException such as CancelledError is left out of the statement.)
C25_RunBoundary ==
    [][\A t \in Tasks :
         (Ends(t) /\ run'[t].outcome # "cancelled") =>
            (IF run'[t].sid \notin DOMAIN active_sessions
             THEN run'[t].raised = "KeyError"
             ELSE /\ run'[t].raised = NoExc
                  /\ run'[t].summary # <<>>
                  /\ (run'[t].outcome = "raised") =>
                        (/\ session_objs'[run[t].obj].status = "error"
                         /\ ~run'[t].summary[1].success))]_vars

\* C26: a run that ended because the stop request was seen at a phase
\* boundary is not recorded as a failure: its summary is not the summary of
\* a failed run and its session does not get status "error".
C26_InterruptedIsNotError ==
    [][\A t \in Tasks :
         (Ends(t) /\ run'[t].outcome = "interrupted") =>
            /\ session_objs'[run[t].obj].status # "error"
            /\ run'[t].summary # <<Summary(FALSE, NoneMsg)>>]_vars

\* ------------------------------------------------------ claims (SpecRoute)
\* the method a proxy of the registry forwards
ProxyMethod(op) == CHOOSE m \in Methods : ProxyName[m] = op
ProxyOps == {ProxyName[m] : m \in Methods}

\* C27: pause_pipeline / resume_pipeline / stop_pipeline(sid) return False
\* and touch no controller when no run_pipeline call is in progress for sid;
\* when one is, they call the method on the controller of a run in progress
\* for sid and return True.
C27_ProxiesReachTheRun ==
    [][(last'.op \in ProxyOps) =>
         LET sid == last'.ret[1]
             ok == last'.ret[2]
             m == ProxyMethod(last'.op)
         IN  IF ActiveRuns(sid) = {}
             THEN ~ok /\ loops' = loops
             ELSE /\ ok
                  /\ \E t \in ActiveRuns(sid) :
                        loops' = [loops EXCEPT ![t] = LoopCall(m, @)]]_vars

\* C28: when a run of one session starts (its controller is built and
\* started) while a run of another session is in progress, nothing that
\* routes control requests to the running one changes: the controller the
\* signal handlers are bound to, the global controller, the registry entry
\* and the controller of the running one; and a proxy call for one session
\* changes the controller of no run of another session.
C28_SessionsShareNoControlState ==
    [][/\ \A t1, t2 \in Tasks :
             (/\ t1 # t2
              /\ run[t1].pc = "running"
              /\ run[t2].pc = "idle" /\ run'[t2].pc = "running"
              /\ run'[t2].sid # run[t1].sid) =>
                 (/\ signal_target' = signal_target
                  /\ global_controller' = global_controller
                  /\ pipelines'[run[t1].sid] = pipelines[run[t1].sid]
                  /\ loops'[t1] = loops[t1])
       /\ (last'.op \in ProxyOps) =>
              (\A t \in Tasks :
                 (run[t].pc = "running" /\ run[t].sid # last'.ret[1]) =>
                    (loops'[t] = loops[t]))]_vars

C32_BackendNeverFailsTheOwner ==
    [][/\ (last'.op = "create_session" => last'.raised = NoExc)
       /\ \A t \in Tasks :
             (Ends(t) /\ run'[t].outcome = "success") =>
                (/\ run'[t].raised = NoExc
                 /\ run'[t].summary = <<Summary(TRUE, NoneMsg)>>
                 /\ session_objs'[run[t].obj].status = "completed")]_vars

\* -------------------------------------------------------- claims (SpecGit)
\* what each operation of the backend returns when git is not available:
\* None, False, [], "", {"available": False}
NotAvailable ==
    [GitStateBackend |-> NoRet, add_all |-> <<FALSE>>, has_changes |-> <<FALSE>>,
     commit |-> NoRet, get_history |-> << <<>> >>, get_file_at_commit |-> NoRet,
     restore_file |-> <<FALSE>>, get_diff |-> <<{}>>, create_tag |-> <<FALSE>>,
     get_status_summary |-> <<[available |-> FALSE]>>]

\* C33: on a host without git every operation of the backend (construction,
\* add_all, has_changes, commit, get_history, get_file_at_commit,
\* restore_file, get_diff, create_tag, get_status_summary) returns its "not
\* available" result, raises nothing and changes neither the work tree nor
\* .git, the commits or the tags.
C33_UnavailableIsNoOp ==
    [][(~git_available /\ last'.op \in DOMAIN NotAvailable) =>
          /\ last'.raised = NoExc
          /\ last'.ret = NotAvailable[last'.op]
          /\ repo'.tree = repo.tree
          /\ repo'.git_dir = repo.git_dir
          /\ repo'.history = repo.history
          /\ repo'.tags = repo.tags]_vars

\* commit() was called without git on a workspace that holds a document
C33_Witness ==
    /\ ~git_available /\ repo.backend
    /\ last.op = "commit" /\ last.ret = NoRet
    /\ repo.tree["doc"] # Absent /\ ~repo.git_dir /\ repo.history = <<>>

\* no operation modifies or removes a recorded commit
AppendOnly ==
    \A i \in DOMAIN repo.history :
        i \in DOMAIN repo'.history /\ repo'.history[i] = repo.history[i]

C35_IteratePeriodicCheckpoint ==
    [][(last'.op = "iterate" /\ ~stop_requested) =>
          /\ current_iteration' = current_iteration + 1
          /\ last'.ret = <<current_iteration'>>
          /\ IF current_iteration' % checkpoint_interval = 0
             THEN /\ last_checkpoint' =
                        <<Checkpoint(current_iteration', current_phase, state_data,
                                     clock)>>
                  /\ files' = WriteFile(files, clock, JsonDump(last_checkpoint'[1]))
             ELSE UNCHANGED <<last_checkpoint, files>>]_vars

\* with checkpoint_interval 2, iterate() has written at iteration 2 the only
\* checkpoint there is: iteration 1 wrote none
C35_Witness ==
    /\ last.op = "iterate" /\ last.ret = <<2>> /\ ~stop_requested
    /\ checkpoint_interval = 2 /\ clock = 1
    /\ DOMAIN files = {1} /\ files[1].iteration = 2
    /\ last_checkpoint[1].iteration = 2

\* ------------------------------------------------- more claims (SpecPipe)
\* a phase of run() is executing; run() is suspended on the gate
Executing == pipe.pc \in {"work", "debate"}
Suspended == pipe.pc \in {"waiting", "iterating"}

\* C36: a pause() issued while a phase is executing leaves the phase as it
\* is (no suspension, no abort); run() suspends only in its wait_if_paused()
\* and iterate() calls, between phases; while it is suspended it does not
\* move, and only resume() or stop() wakes it, opening the gate; no phase
\* starts while the gate is closed.
C36_SuspendsOnlyAtPhaseBoundary ==
    [][/\ ((last'.op = "pause" /\ Executing) => (pipe' = pipe /\ debate' = debate))
       /\ ((Suspended' /\ ~Suspended) => (pipe.pc \in {"wait", "iterate"}))
       /\ ((Suspended /\ Waiting) =>
              (/\ pipe' = pipe
               /\ (~Waiting' => (last'.op \in {"resume", "stop"} /\ pause_event'))))
       /\ ((~Executing /\ Executing') => pause_event)]_vars

\* ----------------------------------------------------- more claims (Spec)
\* C37: whenever the gate is closed the state is Paused, and so is it
\* whenever a caller is suspended in wait_if_paused(): resume() can always
\* reopen a closed gate.
C37_ClosedGateIsPaused ==
    /\ (~pause_event => state = PAUSED)
    /\ (Waiting => state = PAUSED)

\* ------------------------------------------------- more claims (SpecPipe)
\* run() has called start() and its final phase has not finished
InProgress == pipe.pc \notin {"idle", "complete", "returned", "propagated"}

\* C38: a run in progress on which stop() has been called (after start(),
\* before the end of the final phase) leaves its phases only by returning a
\* result that does not carry success = True, the controller not Completed:
\* it does not get past its final phase to complete(success=True).
C38_StoppedRunIsNoSuccess ==
    [][(stop_requested /\ InProgress /\ ~InProgress') =>
          /\ pipe'.pc \in {"returned", "propagated"}
          /\ pipe'.result.success # "true"
          /\ state' # COMPLETED]_vars

\* C39: the checkpoint held as last_checkpoint is a snapshot: an
\* update_state() call made after a checkpoint save or a checkpoint load
\* leaves that checkpoint, its state_data included, as it was.
C39_CheckpointIsSnapshot ==
    [][\A d \in Dicts :
         (UpdateState(d) /\ last_checkpoint # <<>>) =>
            (last_checkpoint' = last_checkpoint)]_vars

\* C40: whenever create_session or run_pipeline has returned, the descriptor
\* file of the workspace carries the status and the git_commit of the
\* SessionInfo the registry holds for that session id.
C40_DescriptorEqualsMemory ==
    [][(/\ last'.op \in {"create_session", "run_pipeline_returned"}
        /\ last'.raised = NoExc /\ last'.ret # NoRet) =>
          LET sid == last'.ret[1]
              session == session_objs'[active_sessions'[sid]]
              file == session_file'[session.case_path]
          IN  /\ file # <<>>
              /\ file[1].status = session.status
              /\ file[1].git_commit = JsonOptional(session.git_commit)]_vars

====
